---- MODULE Spec2Model ----
(***************************************************************************)
(* Engagement stage reconciliation and weighted progress of the SecureRAG  *)
(* frontend: the OngoingProjectCard component of                           *)
(* frontend/src/components/DocumentCard.jsx and its helpers.               *)
(*                                                                         *)
(* The specifications share the variables:                                 *)
(*   SpecProgress   the pure progress calculator over bounded stage lists  *)
(*   SpecCalendar   the pure business-day counter over bounded date pairs  *)
(*   Spec           the mounted component: reconcile effect, stage         *)
(*                  handlers, the delayed corrective write and the         *)
(*                  persistence server                                     *)
(*   SpecLifecycle  the mounted component on one stage list: completion,   *)
(*                  kickoff status, test checklist, notes and the project  *)
(*                  edit form                                              *)
(*   SpecCard       the mounted component with every handler and one user  *)
(*                  operation                                              *)
(*   SpecSaving     SpecCard on one stage list, under the scheduling of    *)
(*                  effects, timers and requests                           *)
(*   SpecSwitch     SpecCard with a parent that hands the mounted card     *)
(*                  another engagement                                     *)
(*   SpecReload     the mounted component without user operations and     *)
(*                  with a parent that reloads the record at any time,     *)
(*                  under the scheduling of effects, timers and requests   *)
(***************************************************************************)
EXTENDS Integers, Sequences, FiniteSets, TLC

VARIABLES
    pentestStages,          \* useState: the local stage view (array of stage objects)
    progress,               \* render: calculateWeightedProgress(pentestStages)
    totalStages,            \* render: pentestStages.length
    completedStages,        \* render: number of stages with done
    startDate,              \* calendar input
    endDate,                \* calendar input
    businessDays,           \* calendar result
    mode,                   \* which specification is running
    project,                \* the project prop: the persisted record as last fetched
    db,                     \* the record held by the persistence backend
    lastProcessedStagesRef, \* useRef: fingerprint of the last reconciled input
    effectPending,          \* the reconcile effect is queued (mount or changed deps)
    timers,                 \* setTimeout callbacks holding a corrective write
    timerRef,               \* per local stage: its position in the newest timer's array
    isSaving,               \* useState: the saving flag
    requests,               \* updateProject calls in flight
    refetchPending,         \* onUpdate() was called, the parent has not reloaded yet
    alertMsg,               \* the alert shown by the last step
    opsLeft,                \* user operations still allowed by the bound
    lastInput,              \* history: the persisted input of the last reconcile pass
    dirty,                  \* history: a stage handler ran since the last pass
    repeatPass,             \* history: the last pass saw the input of the pass before it
    tests,                  \* useState: the local test checklist
    isCompleted,            \* useState: the completion flag
    leaveDays,              \* useState: the leave days typed into the completion modal
    kickoffStatus,          \* useState: the kickoff status shown
    projectFields,          \* the project prop: its fields other than the stage list
    dbFields,               \* the backend record: its fields other than the stage list
    syncPending,            \* the sync effect is queued (mount or changed deps)
    call                    \* the handler invoked, or the promise settled, by the last step

calVars == <<startDate, endDate, businessDays>>
renderVars == <<progress, totalStages, completedStages>>
lifeVars == <<tests, isCompleted, leaveDays, kickoffStatus, projectFields, dbFields,
              syncPending>>
compVars == <<project, db, lastProcessedStagesRef, effectPending, timers, timerRef,
              isSaving, requests, refetchPending, alertMsg, opsLeft, lastInput, dirty,
              repeatPass, lifeVars, call>>

vars == <<pentestStages, progress, totalStages, completedStages,
          startDate, endDate, businessDays, mode,
          project, db, lastProcessedStagesRef, effectPending, timers, timerRef,
          isSaving, requests, refetchPending, alertMsg, opsLeft, lastInput, dirty,
          repeatPass, tests, isCompleted, leaveDays, kickoffStatus, projectFields,
          dbFields, syncPending, call>>

\* JavaScript null (project.pentest_stages missing, date: null, a null Date)
Null == "null"

----------------------------------------------------------------------------
(* Bounds *)

MaxShortLen == 3        \* longest stage list built by appending in SpecProgress
MaxDay == 13            \* calendar days 0..MaxDay (day 0 is a Sunday)
MaxTimeOfDay == 1       \* times of day 0..MaxTimeOfDay (0 is local midnight)
MaxInitLen == 2         \* longest persisted stage list at mount
MaxOps == 1             \* user operations per run of the component
MaxLifeOps == 2         \* user operations per run of SpecLifecycle
MaxLeave == 1           \* leave days 0..MaxLeave typed into the completion modal

----------------------------------------------------------------------------
(* Generic array helpers *)

\* Array.prototype.includes
Includes(list, x) == \E i \in DOMAIN list : list[i] = x

\* Array.prototype.filter(...).length for a predicate on stages
CountIf(stages, Test(_)) == Len(SelectSeq(stages, Test))

\* Mutation: the first element is dropped whatever the index
RemoveAt_first(list, index) == Tail(list)

\* array.filter((_, i) => i !== index)
RemoveAt(list, index) ==
    [i \in 1..(Len(list) - 1) |-> IF i < index THEN list[i] ELSE list[i + 1]]

----------------------------------------------------------------------------
(* Canonical template and weighting groups *)

STATIC_PENTEST_STAGES ==
    << "Ticket Assigned", "Kickoff", "Accounts Received", "Enumeration",
       "Manual Testing", "Automated Testing", "Lateral Movement",
       "Exploitation", "Known CVE", "Compliance", "Reporting",
       "Shared report 1on1 to PSM", "Uploaded report on Sharepoint",
       "Sent Emails to Stakeholders", "Last Jira Ticket Closed" >>

PREPARATION_STAGES == << "Kickoff", "Accounts Received" >>

MAIN_TESTING_STAGES ==
    << "Enumeration", "Manual Testing", "Automated Testing",
       "Lateral Movement", "Exploitation", "Known CVE", "Compliance" >>

FINAL_STAGES ==
    << "Reporting", "Shared report 1on1 to PSM",
       "Uploaded report on Sharepoint", "Sent Emails to Stakeholders",
       "Last Jira Ticket Closed" >>

\* A stage object { stage, done, date, isStatic }
NewStage(name, static) ==
    [stage |-> name, done |-> FALSE, date |-> Null, isStatic |-> static]

\* STATIC_PENTEST_STAGES.map(stage => ({stage, done: false, date: null, isStatic: true}))
initialStages ==
    [i \in DOMAIN STATIC_PENTEST_STAGES |-> NewStage(STATIC_PENTEST_STAGES[i], TRUE)]

----------------------------------------------------------------------------
(* Progress calculator *)

\* Math.round of the non-negative rational num/den: floor(num/den + 1/2)
MathRound(num, den) == (2 * num + den) \div (2 * den)

\* The sum pc/pt*10 + mc/mt*80 + fc/ft*10 with absent groups contributing 0,
\* rounded.  The quotients are kept exact over the common denominator; IEEE
\* doubles give the same rounded value for every list with fewer than ten
\* weighted stages and for every list that holds the seven Main Testing and
\* the five Final stages once, which are the lists of this model.
RoundedWeightedSum(pc, pt, wp, mc, mt, wm, fc, ft, wf) ==
    LET P == IF pt > 0 THEN pt ELSE 1
        M == IF mt > 0 THEN mt ELSE 1
        F == IF ft > 0 THEN ft ELSE 1
        prepNum  == IF pt > 0 THEN pc * wp * M * F ELSE 0
        mainNum  == IF mt > 0 THEN mc * wm * P * F ELSE 0
        finalNum == IF ft > 0 THEN fc * wf * P * M ELSE 0
    IN  MathRound(prepNum + mainNum + finalNum, P * M * F)

\* Mutation: the Final group weighted 20 instead of 10
calculateWeightedProgress_weights(stages) ==
    LET InPrep(s)  == Includes(PREPARATION_STAGES, s.stage)
        InMain(s)  == Includes(MAIN_TESTING_STAGES, s.stage)
        InFinal(s) == Includes(FINAL_STAGES, s.stage)
        PrepDone(s)  == InPrep(s) /\ s.done
        MainDone(s)  == InMain(s) /\ s.done
        FinalDone(s) == InFinal(s) /\ s.done
    IN  RoundedWeightedSum(CountIf(stages, PrepDone), CountIf(stages, InPrep), 10,
                           CountIf(stages, MainDone), CountIf(stages, InMain), 80,
                           CountIf(stages, FinalDone), CountIf(stages, InFinal), 20)

\* Mutation: 'Ticket Assigned' counted in the Preparation group
calculateWeightedProgress_ticket(stages) ==
    LET InPrep(s)  == Includes(PREPARATION_STAGES, s.stage) \/ s.stage = "Ticket Assigned"
        InMain(s)  == Includes(MAIN_TESTING_STAGES, s.stage)
        InFinal(s) == Includes(FINAL_STAGES, s.stage)
        PrepDone(s)  == InPrep(s) /\ s.done
        MainDone(s)  == InMain(s) /\ s.done
        FinalDone(s) == InFinal(s) /\ s.done
    IN  RoundedWeightedSum(CountIf(stages, PrepDone), CountIf(stages, InPrep), 10,
                           CountIf(stages, MainDone), CountIf(stages, InMain), 80,
                           CountIf(stages, FinalDone), CountIf(stages, InFinal), 10)

\* Mutation: the unweighted ratio completed/total*100
calculateWeightedProgress_unweighted(stages) ==
    LET Done(s) == s.done
    IN  IF Len(stages) > 0
        THEN MathRound(CountIf(stages, Done) * 100, Len(stages))
        ELSE 0

calculateWeightedProgress(stages) ==
    LET InPrep(s)  == Includes(PREPARATION_STAGES, s.stage)
        InMain(s)  == Includes(MAIN_TESTING_STAGES, s.stage)
        InFinal(s) == Includes(FINAL_STAGES, s.stage)
        PrepDone(s)  == InPrep(s) /\ s.done
        MainDone(s)  == InMain(s) /\ s.done
        FinalDone(s) == InFinal(s) /\ s.done
    IN  RoundedWeightedSum(CountIf(stages, PrepDone), CountIf(stages, InPrep), 10,
                           CountIf(stages, MainDone), CountIf(stages, InMain), 80,
                           CountIf(stages, FinalDone), CountIf(stages, InFinal), 10)

\* pentestStages.filter((s) => s && s.done).length
CountCompleted(stages) ==
    LET Done(s) == s.done
    IN  CountIf(stages, Done)

\* The derived values of one render of the card
Render(stages) ==
    /\ progress' = calculateWeightedProgress(stages)
    /\ totalStages' = Len(stages)
    /\ completedStages' = CountCompleted(stages)

----------------------------------------------------------------------------
(* Calendar utility *)

\* A Date value: a calendar day and a time of day; day 0 is a Sunday
Dates == [day : 0..MaxDay, tod : 0..MaxTimeOfDay]

\* A missing date (null, undefined or ''): the falsy argument of !startDate
NullDate == [day |-> 0 - 1, tod |-> 0]
IsNullDate(d) == d.day < 0

\* Date.prototype.setHours(0, 0, 0, 0)
StartOfDay(d) == [d EXCEPT !.tod = 0]

\* start > end on Date values
DateAfter(a, b) == a.day > b.day \/ (a.day = b.day /\ a.tod > b.tod)

\* Date.prototype.getDay: 0 = Sunday ... 6 = Saturday
getDay(d) == d.day % 7

\* date-fns isWeekend
isWeekend(d) == getDay(d) = 0 \/ getDay(d) = 6

\* date-fns eachDayOfInterval: every day from start to end, both included
eachDayOfInterval(start, end) ==
    [i \in 1..(end.day - start.day + 1) |-> [day |-> start.day + i - 1, tod |-> 0]]

\* Mutation: the end day is left out of the interval
calculateBusinessDays_exclusive(start0, end0) ==
    IF IsNullDate(start0) \/ IsNullDate(end0) THEN 0
    ELSE LET start == StartOfDay(start0)
             end == StartOfDay(end0)
             NotWeekend(d) == ~isWeekend(d)
         IN  IF DateAfter(start, end) THEN 0
             ELSE Len(SelectSeq(SubSeq(eachDayOfInterval(start, end), 1, end.day - start.day),
                                NotWeekend))

calculateBusinessDays(start0, end0) ==
    IF IsNullDate(start0) \/ IsNullDate(end0) THEN 0
    ELSE LET start == StartOfDay(start0)
             end == StartOfDay(end0)
             NotWeekend(d) == ~isWeekend(d)
         IN  IF DateAfter(start, end) THEN 0
             ELSE Len(SelectSeq(eachDayOfInterval(start, end), NotWeekend))

----------------------------------------------------------------------------
(* SpecProgress: the progress calculator on bounded stage lists *)

\* Names appended to short lists: members of each group, the unweighted
\* template stage and a custom name
ShortNames == { "Kickoff", "Accounts Received", "Enumeration", "Manual Testing",
                "Reporting", "Ticket Assigned", "Custom A" }

IsTemplateName(name) == Includes(STATIC_PENTEST_STAGES, name)

\* Mutation: the date is written when the stage becomes done and never cleared
ToggleAt_keepDate(stages, index) ==
    [stages EXCEPT ![index] =
        [@ EXCEPT !.done = ~@, !.date = IF stages[index].done THEN @ ELSE "now"]]

\* updatedStages[index].done = !done with the date set or cleared
ToggleAt(stages, index) ==
    [stages EXCEPT ![index] =
        [@ EXCEPT !.done = ~@, !.date = IF stages[index].done THEN Null ELSE "now"]]

\* fingerprint values of lastProcessedStagesRef
KeyUnset == [kind |-> "unset", items |-> <<>>]

\* project.id of the engagement the card is mounted with
MountedId == "p1"

NoProject == [id |-> MountedId, hasStages |-> FALSE, pentest_stages |-> <<>>]

\* The project fields read by the completion, kickoff and checklist code; a
\* missing kickoff_status is "", a missing date is NullDate
ProjectFields(testsChecklist, status, startDay, completedDate, leave, worked, kickoff) ==
    [tests_checklist |-> testsChecklist, status |-> status, start_date |-> startDay,
     completed_date |-> completedDate, leave_days |-> leave,
     business_days_worked |-> worked, kickoff_status |-> kickoff]

\* A project started on Monday of the first week, not completed, kickoff queued
Monday == [day |-> 1, tod |-> 0]
DefaultFields == ProjectFields(<<>>, "ongoing", Monday, NullDate, 0, 0, "queued")

\* project.kickoff_status || 'queued'
KickoffOf(fields) == IF fields.kickoff_status = "" THEN "queued" ELSE fields.kickoff_status

\* The handler call made by a step: its name, its index argument (0 when it
\* has none) and its text argument ("" when it has none); for a settled
\* updateProject promise: "resolved" or "rejected", the position of the
\* request and the operation that issued it
Call(op, index, text) == [op |-> op, index |-> index, text |-> text]
NoCall == Call("", 0, "")

\* The part of an updateProject payload that names fields other than the
\* stage list and the progress: the keys sent and their values
Patch(keys, val) == [keys |-> keys, val |-> val]
NoPatch == Patch({}, DefaultFields)

InitComponentIdle ==
    /\ project = NoProject
    /\ db = [hasStages |-> FALSE, pentest_stages |-> <<>>, progress_percentage |-> 0]
    /\ lastProcessedStagesRef = KeyUnset
    /\ effectPending = FALSE
    /\ timers = <<>>
    /\ timerRef = <<>>
    /\ isSaving = FALSE
    /\ requests = <<>>
    /\ refetchPending = FALSE
    /\ alertMsg = ""
    /\ opsLeft = 0
    /\ lastInput = NoProject
    /\ dirty = FALSE
    /\ repeatPass = FALSE
    /\ tests = <<>>
    /\ isCompleted = FALSE
    /\ leaveDays = 0
    /\ kickoffStatus = "queued"
    /\ projectFields = DefaultFields
    /\ dbFields = DefaultFields
    /\ syncPending = FALSE
    /\ call = NoCall

InitCalendarIdle ==
    /\ startDate = NullDate
    /\ endDate = NullDate
    /\ businessDays = 0

InitProgress ==
    /\ mode = "progress"
    /\ pentestStages \in { initialStages, <<>> }
    /\ progress = calculateWeightedProgress(pentestStages)
    /\ totalStages = Len(pentestStages)
    /\ completedStages = CountCompleted(pentestStages)
    /\ InitCalendarIdle
    /\ InitComponentIdle

ProgressToggle(i) ==
    /\ i \in DOMAIN pentestStages
    /\ pentestStages' = ToggleAt(pentestStages, i)
    /\ Render(pentestStages')
    /\ UNCHANGED <<calVars, mode, compVars>>

ProgressAppend(name) ==
    /\ Len(pentestStages) < MaxShortLen
    /\ pentestStages' = Append(pentestStages, NewStage(name, IsTemplateName(name)))
    /\ Render(pentestStages')
    /\ UNCHANGED <<calVars, mode, compVars>>

NextProgress ==
    \/ \E i \in 1..Len(STATIC_PENTEST_STAGES) : ProgressToggle(i)
    \/ \E name \in ShortNames : ProgressAppend(name)

SpecProgress == InitProgress /\ [][NextProgress]_vars

----------------------------------------------------------------------------
(* SpecCalendar: the business-day counter on bounded date pairs *)

InitCalendar ==
    /\ mode = "calendar"
    /\ pentestStages = <<>>
    /\ progress = 0
    /\ totalStages = 0
    /\ completedStages = 0
    /\ startDate \in Dates \cup {NullDate}
    /\ endDate \in Dates \cup {NullDate}
    /\ businessDays = 0
    /\ InitComponentIdle

CalcBusinessDays ==
    /\ mode = "calendar"
    /\ businessDays' = calculateBusinessDays(startDate, endDate)
    /\ mode' = "calendar_done"
    /\ UNCHANGED <<pentestStages, renderVars, startDate, endDate, compVars>>

NextCalendar == CalcBusinessDays

SpecCalendar == InitCalendar /\ [][NextCalendar]_vars

----------------------------------------------------------------------------
(* The OngoingProjectCard component: mount and reconcile effect *)

RECURSIVE LastWithName(_, _, _)
\* existingMap.get(name) after existingStages.forEach(stage => existingMap.set(...)):
\* the index of the last stage with that name in 1..k, 0 when there is none
LastWithName(stages, name, k) ==
    IF k = 0 THEN 0
    ELSE IF stages[k].stage = name THEN k
    ELSE LastWithName(stages, name, k - 1)

\* existingStages.filter(s => !STATIC_PENTEST_STAGES.includes(s.stage))
NotInTemplate(s) == ~IsTemplateName(s.stage)
InTemplate(s) == IsTemplateName(s.stage)

\* The initial value of the pentestStages state
initializePentestStages(p) ==
    LET existingStages == IF p.hasStages THEN p.pentest_stages ELSE <<>>
        staticStages ==
            [i \in DOMAIN STATIC_PENTEST_STAGES |->
                LET k == LastWithName(existingStages, STATIC_PENTEST_STAGES[i], Len(existingStages))
                IN  IF k > 0
                    THEN [existingStages[k] EXCEPT !.isStatic = TRUE]
                    ELSE NewStage(STATIC_PENTEST_STAGES[i], TRUE)]
        customStages == SelectSeq(existingStages, NotInTemplate)
    IN  staticStages \o customStages

\* JSON.stringify(project.pentest_stages.map(s => ({stage, done}))) or 'null'
currentStagesKey(p) ==
    IF p.hasStages
    THEN [kind |-> "json",
          items |-> [i \in DOMAIN p.pentest_stages |->
                        [stage |-> p.pentest_stages[i].stage,
                         done |-> p.pentest_stages[i].done]]]
    ELSE [kind |-> "null", items |-> <<>>]

\* Mutation: the guard never recognises an input it has processed
AlreadyProcessed_never(ref, key) == FALSE

\* lastProcessedStagesRef.current === currentStagesKey
AlreadyProcessed(ref, key) == ref = key

\* project.pentest_stages.map(stage => ({...stage, isStatic: includes(stage.stage)}))
TagStatic(stages) ==
    [i \in DOMAIN stages |-> [stages[i] EXCEPT !.isStatic = IsTemplateName(stages[i].stage)]]

IsStaticStage(s) == s.isStatic
IsCustomStage(s) == ~s.isStatic

RECURSIVE FindFirst(_, _, _)
\* Array.prototype.find(s => s.stage === name): the first index from k on, 0 when none
FindFirst(stages, name, k) ==
    IF k > Len(stages) THEN 0
    ELSE IF stages[k].stage = name THEN k
    ELSE FindFirst(stages, name, k + 1)

RECURSIVE ReorderFrom(_, _)
\* STATIC_PENTEST_STAGES.map(name => staticStagesPresent.find(...)).filter(Boolean),
\* from template position t on
ReorderFrom(t, staticStagesPresent) ==
    IF t > Len(STATIC_PENTEST_STAGES) THEN <<>>
    ELSE LET k == FindFirst(staticStagesPresent, STATIC_PENTEST_STAGES[t], 1)
         IN  (IF k > 0 THEN <<staticStagesPresent[k]>> ELSE <<>>)
                \o ReorderFrom(t + 1, staticStagesPresent)

reorderedStaticStages(stages) ==
    ReorderFrom(1, SelectSeq(TagStatic(stages), IsStaticStage))

\* [...reorderedStaticStages, ...customStages]
updatedStagesOf(stages) ==
    reorderedStaticStages(stages) \o SelectSeq(TagStatic(stages), IsCustomStage)

StageNames(stages) == [i \in DOMAIN stages |-> stages[i].stage]

\* Mutation: only the number of static stages is compared
OrderChanged_lengthOnly(staticStagesInProject, staticStagesInOrder) ==
    Len(staticStagesInProject) # Len(staticStagesInOrder)

\* staticStagesInProject.length !== staticStagesInOrder.length ||
\*   staticStagesInProject.some((stage, idx) => stage !== staticStagesInOrder[idx])
OrderChanged(staticStagesInProject, staticStagesInOrder) ==
    \/ Len(staticStagesInProject) # Len(staticStagesInOrder)
    \/ \E idx \in DOMAIN staticStagesInProject :
            staticStagesInProject[idx] # staticStagesInOrder[idx]

\* Mutation: every pass over a non-empty list saves
ShouldSaveOrder_always(stages) == Len(stages) > 0

\* The condition of the corrective write
ShouldSaveOrder(stages) ==
    LET staticStagesInProject == StageNames(SelectSeq(stages, InTemplate))
        staticStagesInOrder == StageNames(reorderedStaticStages(stages))
    IN  /\ OrderChanged(staticStagesInProject, staticStagesInOrder)
        /\ Len(stages) > 0
        /\ Len(staticStagesInProject) = Len(staticStagesInOrder)

\* The progress attached to the corrective write
correctiveProgress(updatedStages) ==
    LET completed == CountCompleted(updatedStages)
        total == Len(updatedStages)
    IN  IF total > 0 THEN MathRound(completed * 100, total) ELSE 0

\* No local stage object is shared with a pending timer any more
Unlive(ts) == [i \in DOMAIN ts |-> [ts[i] EXCEPT !.live = FALSE]]
NoRefs(stages) == [i \in DOMAIN stages |-> 0]

\* The sync effect, run at mount and whenever project.completed_date,
\* project.leave_days or project.kickoff_status changed
SyncEffect ==
    /\ syncPending' = FALSE
    /\ IF syncPending
       THEN /\ isCompleted' = ~IsNullDate(projectFields.completed_date)
            /\ leaveDays' = projectFields.leave_days
            /\ kickoffStatus' = KickoffOf(projectFields)
       ELSE UNCHANGED <<isCompleted, leaveDays, kickoffStatus>>
    /\ UNCHANGED <<tests, projectFields, dbFields>>

\* The effects flushed after a render: the sync effect, then the reconcile
\* effect, run at mount and whenever project.id or project.pentest_stages
\* changed
ReconcileEffect ==
    /\ mode = "card"
    /\ effectPending
    /\ effectPending' = FALSE
    /\ alertMsg' = ""
    /\ call' = NoCall
    /\ SyncEffect
    /\ lastInput' = project
    /\ dirty' = FALSE
    /\ repeatPass' = (lastProcessedStagesRef # KeyUnset /\ project = lastInput /\ ~dirty)
    /\ LET currentKey == currentStagesKey(project)
       IN  IF AlreadyProcessed(lastProcessedStagesRef, currentKey)
           THEN UNCHANGED <<pentestStages, renderVars, lastProcessedStagesRef,
                            timers, timerRef>>
           ELSE /\ lastProcessedStagesRef' = currentKey
                /\ IF project.hasStages
                   THEN LET updatedStages == updatedStagesOf(project.pentest_stages)
                            stagesChanged == pentestStages # updatedStages
                            save == ShouldSaveOrder(project.pentest_stages)
                            kept == IF stagesChanged THEN Unlive(timers) ELSE timers
                        IN  /\ pentestStages' =
                                  IF stagesChanged THEN updatedStages ELSE pentestStages
                            /\ timers' =
                                  IF save
                                  THEN Append(kept,
                                         [pentest_stages |-> updatedStages,
                                          progress_percentage |-> correctiveProgress(updatedStages),
                                          live |-> stagesChanged])
                                  ELSE kept
                            /\ timerRef' =
                                  IF ~stagesChanged THEN timerRef
                                  ELSE IF save THEN [i \in DOMAIN updatedStages |-> i]
                                  ELSE NoRefs(updatedStages)
                   ELSE /\ pentestStages' = initialStages
                        /\ timers' = Unlive(timers)
                        /\ timerRef' = NoRefs(initialStages)
                /\ Render(pentestStages')
    /\ UNCHANGED <<calVars, mode, project, db, isSaving, requests, refetchPending, opsLeft>>

\* Mutation: the callback stays armed after it ran
FireTimer_rearm ==
    /\ mode = "card"
    /\ ~effectPending
    /\ timers # <<>>
    /\ requests' = Append(requests,
                      [op |-> "corrective", hasStages |-> TRUE,
                       pentest_stages |-> Head(timers).pentest_stages,
                       hasProgress |-> TRUE,
                       progress_percentage |-> Head(timers).progress_percentage,
                       patch |-> NoPatch, revertTo |-> "", localBefore |-> ""])
    /\ timers' = timers
    /\ timerRef' = IF Head(timers).live THEN NoRefs(pentestStages) ELSE timerRef
    /\ alertMsg' = ""
    /\ call' = NoCall
    /\ UNCHANGED <<pentestStages, renderVars, calVars, mode, project, db,
                   lastProcessedStagesRef, effectPending, isSaving, refetchPending,
                   opsLeft, lastInput, dirty, repeatPass, lifeVars>>

\* The setTimeout callback: updateProject(project.id, {pentest_stages, progress_percentage})
FireTimer ==
    /\ mode = "card"
    /\ ~effectPending
    /\ timers # <<>>
    /\ requests' = Append(requests,
                      [op |-> "corrective", hasStages |-> TRUE,
                       pentest_stages |-> Head(timers).pentest_stages,
                       hasProgress |-> TRUE,
                       progress_percentage |-> Head(timers).progress_percentage,
                       patch |-> NoPatch, revertTo |-> "", localBefore |-> ""])
    /\ timers' = Tail(timers)
    /\ timerRef' = IF Head(timers).live THEN NoRefs(pentestStages) ELSE timerRef
    /\ alertMsg' = ""
    /\ call' = NoCall
    /\ UNCHANGED <<pentestStages, renderVars, calVars, mode, project, db,
                   lastProcessedStagesRef, effectPending, isSaving, refetchPending,
                   opsLeft, lastInput, dirty, repeatPass, lifeVars>>

----------------------------------------------------------------------------
(* The OngoingProjectCard component: user handlers *)

\* An updateProject call in flight; the payload is serialised when it is
\* issued. revertTo is what the catch block of the caller restores; localBefore
\* is history: the local kickoff status when a kickoff change was called
Request(op, hasStages, stages, hasProgress, pct) ==
    [op |-> op, hasStages |-> hasStages, pentest_stages |-> stages,
     hasProgress |-> hasProgress, progress_percentage |-> pct,
     patch |-> NoPatch, revertTo |-> "", localBefore |-> ""]

\* Mutation: the inline progress is the plain share of done stages
inlineWeightedProgress_unweighted(updatedStages) ==
    IF Len(updatedStages) > 0
    THEN MathRound(CountCompleted(updatedStages) * 100, Len(updatedStages))
    ELSE 0

\* The progress computed inline by handleToggleStage and handleDeleteStage
inlineWeightedProgress(updatedStages) ==
    LET InPrep(s)  == Includes(PREPARATION_STAGES, s.stage)
        InMain(s)  == Includes(MAIN_TESTING_STAGES, s.stage)
        InFinal(s) == Includes(FINAL_STAGES, s.stage)
        PrepDone(s)  == InPrep(s) /\ s.done
        MainDone(s)  == InMain(s) /\ s.done
        FinalDone(s) == InFinal(s) /\ s.done
    IN  RoundedWeightedSum(CountIf(updatedStages, PrepDone), CountIf(updatedStages, InPrep), 10,
                           CountIf(updatedStages, MainDone), CountIf(updatedStages, InMain), 80,
                           CountIf(updatedStages, FinalDone), CountIf(updatedStages, InFinal), 10)

\* String.prototype.trim on the texts a user types into the new-stage input
StageInputs == { "", " ", "Kickoff", "Ticket Assigned", "Custom B " }
Trim(text) ==
    CASE text = " " -> ""
      [] text = "Custom B " -> "Custom B"
      [] OTHER -> text

\* The stage objects of the local view are shared with the array captured by
\* the newest timer: flipping a stage in place flips it in that array too
ToggleInTimers(ts, ref) ==
    [k \in DOMAIN ts |->
        IF ts[k].live /\ ref > 0
        THEN [ts[k] EXCEPT !.pentest_stages = ToggleAt(@, ref)]
        ELSE ts[k]]

handleToggleStage(index) ==
    /\ mode = "card"
    /\ ~effectPending
    /\ opsLeft > 0
    /\ index \in DOMAIN pentestStages
    /\ ~isSaving
    /\ LET updatedStages == ToggleAt(pentestStages, index)
       IN  /\ pentestStages' = updatedStages
           /\ timers' = ToggleInTimers(timers, timerRef[index])
           /\ requests' = Append(requests,
                             Request("toggleStage", TRUE, updatedStages, TRUE,
                                     inlineWeightedProgress(updatedStages)))
    /\ Render(pentestStages')
    /\ isSaving' = TRUE
    /\ alertMsg' = ""
    /\ opsLeft' = opsLeft - 1
    /\ dirty' = TRUE
    /\ call' = Call("toggleStage", index, "")
    /\ UNCHANGED <<calVars, mode, project, db, lastProcessedStagesRef, effectPending,
                   timerRef, refetchPending, lastInput, repeatPass, lifeVars>>

\* A blank input returns before any state is touched
handleAddStage(newStage) ==
    /\ mode = "card"
    /\ ~effectPending
    /\ opsLeft > 0
    /\ ~isSaving
    /\ opsLeft' = opsLeft - 1
    /\ alertMsg' = ""
    /\ call' = Call("addStage", 0, newStage)
    /\ IF Trim(newStage) = ""
       THEN UNCHANGED <<pentestStages, renderVars, requests, timerRef, isSaving, dirty>>
       ELSE /\ LET updatedStages == Append(pentestStages, NewStage(Trim(newStage), FALSE))
               IN  /\ pentestStages' = updatedStages
                   /\ requests' = Append(requests,
                                     Request("addStage", TRUE, updatedStages, FALSE, 0))
            /\ timerRef' = Append(timerRef, 0)
            /\ Render(pentestStages')
            /\ isSaving' = TRUE
            /\ dirty' = TRUE
    /\ UNCHANGED <<calVars, mode, project, db, lastProcessedStagesRef, effectPending,
                   timers, refetchPending, lastInput, repeatPass, lifeVars>>

\* The handler does not read isSaving; the button that calls it is disabled
\* while isSaving is set
handleDeleteStage(index) ==
    /\ mode = "card"
    /\ ~effectPending
    /\ opsLeft > 0
    /\ index \in DOMAIN pentestStages
    /\ ~isSaving
    /\ opsLeft' = opsLeft - 1
    /\ call' = Call("deleteStage", index, "")
    /\ IF pentestStages[index].isStatic
       THEN /\ alertMsg' = "Cannot delete static pentesting stages"
            /\ UNCHANGED <<pentestStages, renderVars, timerRef, requests, isSaving, dirty>>
       ELSE LET updatedStages == RemoveAt(pentestStages, index)
            IN  /\ pentestStages' = updatedStages
                /\ timerRef' = RemoveAt(timerRef, index)
                /\ requests' = Append(requests,
                                  Request("deleteStage", TRUE, updatedStages, TRUE,
                                          inlineWeightedProgress(updatedStages)))
                /\ Render(pentestStages')
                /\ isSaving' = TRUE
                /\ alertMsg' = ""
                /\ dirty' = TRUE
    /\ UNCHANGED <<calVars, mode, project, db, lastProcessedStagesRef, effectPending,
                   timers, refetchPending, lastInput, repeatPass, lifeVars>>

\* The notes textarea is never disabled: its blur handler runs while a request
\* is in flight too
handleSaveNotes ==
    /\ mode = "card"
    /\ ~effectPending
    /\ opsLeft > 0
    /\ opsLeft' = opsLeft - 1
    /\ isSaving' = TRUE
    /\ requests' = Append(requests, Request("saveNotes", FALSE, <<>>, FALSE, 0))
    /\ alertMsg' = ""
    /\ call' = Call("saveNotes", 0, "")
    /\ UNCHANGED <<pentestStages, renderVars, calVars, mode, project, db,
                   lastProcessedStagesRef, effectPending, timers, timerRef,
                   refetchPending, lastInput, dirty, repeatPass, lifeVars>>

----------------------------------------------------------------------------
(* The OngoingProjectCard component: checklist, completion and kickoff handlers *)

\* What these handlers leave alone: the stage view and the reconcile machinery
stageVars == <<pentestStages, renderVars, calVars, mode, project, db,
               lastProcessedStagesRef, effectPending, timers, timerRef,
               refetchPending, lastInput, dirty, repeatPass>>

\* An updateProject call whose payload names fields other than the stage list
FieldRequest(op, patch, revertTo) ==
    [Request(op, FALSE, <<>>, FALSE, 0) EXCEPT !.patch = patch, !.revertTo = revertTo]

\* { tests_checklist: updatedTests }
TestsPatch(updatedTests) ==
    Patch({"tests_checklist"}, [DefaultFields EXCEPT !.tests_checklist = updatedTests])

\* The texts a user types into the new-test input
TestInputs == { " ", "Scan" }

NewTest(text) == [test |-> text, done |-> FALSE, date |-> Null]

\* A blank input returns before any state is touched
handleAddTest(newTest) ==
    /\ mode = "card"
    /\ ~effectPending
    /\ opsLeft > 0
    /\ ~isSaving
    /\ opsLeft' = opsLeft - 1
    /\ alertMsg' = ""
    /\ call' = Call("addTest", 0, newTest)
    /\ IF Trim(newTest) = ""
       THEN UNCHANGED <<tests, requests, isSaving>>
       ELSE LET updatedTests == Append(tests, NewTest(Trim(newTest)))
            IN  /\ tests' = updatedTests
                /\ requests' = Append(requests,
                                  FieldRequest("addTest", TestsPatch(updatedTests), ""))
                /\ isSaving' = TRUE
    /\ UNCHANGED <<stageVars, isCompleted, leaveDays, kickoffStatus, projectFields,
                   dbFields, syncPending>>

\* updatedTests[index].done = !done; the date is written only when the item
\* becomes done
ToggleTestAt(items, index) ==
    [items EXCEPT ![index] =
        [@ EXCEPT !.done = ~@, !.date = IF items[index].done THEN @ ELSE "now"]]

handleToggleTest(index) ==
    /\ mode = "card"
    /\ ~effectPending
    /\ opsLeft > 0
    /\ index \in DOMAIN tests
    /\ ~isSaving
    /\ opsLeft' = opsLeft - 1
    /\ alertMsg' = ""
    /\ call' = Call("toggleTest", index, "")
    /\ LET updatedTests == ToggleTestAt(tests, index)
       IN  /\ tests' = updatedTests
           /\ requests' = Append(requests,
                             FieldRequest("toggleTest", TestsPatch(updatedTests), ""))
    /\ isSaving' = TRUE
    /\ UNCHANGED <<stageVars, isCompleted, leaveDays, kickoffStatus, projectFields,
                   dbFields, syncPending>>

handleDeleteTest(index) ==
    /\ mode = "card"
    /\ ~effectPending
    /\ opsLeft > 0
    /\ index \in DOMAIN tests
    /\ ~isSaving
    /\ opsLeft' = opsLeft - 1
    /\ alertMsg' = ""
    /\ call' = Call("deleteTest", index, "")
    /\ LET updatedTests == RemoveAt(tests, index)
       IN  /\ tests' = updatedTests
           /\ requests' = Append(requests,
                             FieldRequest("deleteTest", TestsPatch(updatedTests), ""))
    /\ isSaving' = TRUE
    /\ UNCHANGED <<stageVars, isCompleted, leaveDays, kickoffStatus, projectFields,
                   dbFields, syncPending>>

\* onChange of the leave-days input of the completion modal, which opens from
\* the unchecked completion checkbox: setLeaveDays(parseInt(value) || 0)
ChangeLeaveDays(typed) ==
    /\ mode = "card"
    /\ ~effectPending
    /\ opsLeft > 0
    /\ ~isCompleted
    /\ typed # leaveDays
    /\ leaveDays' = typed
    /\ alertMsg' = ""
    /\ call' = NoCall
    /\ UNCHANGED <<stageVars, isSaving, requests, opsLeft, tests, isCompleted,
                   kickoffStatus, projectFields, dbFields, syncPending>>

\* Math.max(0, x)
Max0(x) == IF x > 0 THEN x ELSE 0

\* Mutation: the difference is stored without Math.max
completedBusinessDays_unclamped(start, now, leave) ==
    IF IsNullDate(start) THEN 0 ELSE calculateBusinessDays(start, now) - leave

\* business_days_worked of the completion payload
completedBusinessDays(start, now, leave) ==
    Max0(IF IsNullDate(start) THEN 0 ELSE calculateBusinessDays(start, now) - leave)

\* The business days worked shown by the card for the project prop
businessDaysWorked(fields) ==
    IF ~IsNullDate(fields.completed_date) /\ ~IsNullDate(fields.start_date)
    THEN calculateBusinessDays(fields.start_date, fields.completed_date) - fields.leave_days
    ELSE fields.business_days_worked

\* The instants at which the user confirms the completion modal: the Friday
\* of the first week in the afternoon, the Sunday after it at midnight
NowDates == { [day |-> 5, tod |-> 1], [day |-> 7, tod |-> 0] }

\* The Complete Project button of the modal; now is new Date()
handleCompleteProject(now) ==
    /\ mode = "card"
    /\ ~effectPending
    /\ opsLeft > 0
    /\ ~isCompleted
    /\ ~isSaving
    /\ opsLeft' = opsLeft - 1
    /\ alertMsg' = ""
    /\ call' = Call("complete", 0, "")
    /\ isSaving' = TRUE
    /\ requests' = Append(requests,
          FieldRequest("complete",
              Patch({"status", "completed_date", "leave_days", "business_days_worked"},
                    [DefaultFields EXCEPT
                        !.status = "past",
                        !.completed_date = now,
                        !.leave_days = leaveDays,
                        !.business_days_worked =
                            completedBusinessDays(projectFields.start_date, now, leaveDays)]),
              ""))
    /\ UNCHANGED <<stageVars, tests, isCompleted, leaveDays, kickoffStatus,
                   projectFields, dbFields, syncPending>>

\* The options of the KickoffStatus buttons
KickoffOptions == { "ticket_assigned", "queued", "in_talks", "done" }

\* The value the catch block restores: the kickoff status of the project prop
\* the handler closed over
RevertTarget(fields) == KickoffOf(fields)

handleKickoffStatusChange(newStatus) ==
    /\ mode = "card"
    /\ ~effectPending
    /\ opsLeft > 0
    /\ ~isSaving
    /\ opsLeft' = opsLeft - 1
    /\ alertMsg' = ""
    /\ call' = Call("kickoff", 0, newStatus)
    /\ isSaving' = TRUE
    /\ kickoffStatus' = newStatus
    /\ requests' = Append(requests,
          [FieldRequest("kickoff",
              Patch({"kickoff_status"}, [DefaultFields EXCEPT !.kickoff_status = newStatus]),
              RevertTarget(projectFields))
           EXCEPT !.localBefore = kickoffStatus])
    /\ UNCHANGED <<stageVars, tests, isCompleted, leaveDays, projectFields, dbFields,
                   syncPending>>

\* Mutation: the payload resets the status and the date and leaves the leave
\* days and the business days worked as stored
UncompletePatch_statusOnly ==
    Patch({"status", "completed_date"},
          [DefaultFields EXCEPT !.status = "ongoing", !.completed_date = NullDate])

\* The payload of handleUncompleteProject
UncompletePatch ==
    Patch({"status", "completed_date", "leave_days", "business_days_worked"},
          [DefaultFields EXCEPT
              !.status = "ongoing",
              !.completed_date = NullDate,
              !.leave_days = 0,
              !.business_days_worked = 0])

\* Unchecking the completion checkbox; confirmed is the answer to window.confirm
handleUncompleteProject(confirmed) ==
    /\ mode = "card"
    /\ ~effectPending
    /\ opsLeft > 0
    /\ isCompleted
    /\ ~isSaving
    /\ opsLeft' = opsLeft - 1
    /\ alertMsg' = ""
    /\ call' = Call("uncomplete", 0, IF confirmed THEN "ok" ELSE "cancel")
    /\ IF confirmed
       THEN /\ isSaving' = TRUE
            /\ requests' = Append(requests, FieldRequest("uncomplete", UncompletePatch, ""))
       ELSE UNCHANGED <<isSaving, requests>>
    /\ UNCHANGED <<stageVars, tests, isCompleted, leaveDays, kickoffStatus,
                   projectFields, dbFields, syncPending>>

----------------------------------------------------------------------------
(* The project edit form *)

FormStatusOptions == { "ongoing", "past" }

\* ProjectForm.handleSubmit on an existing project: the payload spreads the
\* form data, which holds the status chosen in the select and the fields the
\* form copied from the project when it opened
ProjectFormSubmit(status) ==
    /\ mode = "card"
    /\ ~effectPending
    /\ opsLeft > 0
    /\ opsLeft' = opsLeft - 1
    /\ alertMsg' = ""
    /\ call' = Call("projectForm", 0, status)
    /\ requests' = Append(requests,
          FieldRequest("projectForm",
              Patch({"status", "kickoff_status", "start_date"},
                    [DefaultFields EXCEPT
                        !.status = status,
                        !.kickoff_status = KickoffOf(projectFields),
                        !.start_date = IF IsNullDate(projectFields.start_date) THEN NullDate
                                       ELSE StartOfDay(projectFields.start_date)]),
              ""))
    /\ UNCHANGED <<stageVars, isSaving, lifeVars>>

----------------------------------------------------------------------------
(* Persistence backend and the parent's reload *)

\* updateProject on the backend: a partial update of the stored record
ApplyUpdate(record, r) ==
    [hasStages |-> record.hasStages \/ r.hasStages,
     pentest_stages |-> IF r.hasStages THEN r.pentest_stages ELSE record.pentest_stages,
     progress_percentage |->
        IF r.hasProgress THEN r.progress_percentage ELSE record.progress_percentage]

\* updateProject on the backend, for the fields other than the stage list
ApplyPatch(fields, patch) ==
    LET Pick(key, old, new) == IF key \in patch.keys THEN new ELSE old
    IN  ProjectFields(
            Pick("tests_checklist", fields.tests_checklist, patch.val.tests_checklist),
            Pick("status", fields.status, patch.val.status),
            Pick("start_date", fields.start_date, patch.val.start_date),
            Pick("completed_date", fields.completed_date, patch.val.completed_date),
            Pick("leave_days", fields.leave_days, patch.val.leave_days),
            Pick("business_days_worked", fields.business_days_worked,
                 patch.val.business_days_worked),
            Pick("kickoff_status", fields.kickoff_status, patch.val.kickoff_status))

\* Mutation: the catch block shows no alert
FailureAlert_silent(op) == ""

\* alert(...) in the catch block of each handler
FailureAlert(op) ==
    CASE op = "toggleStage" -> "Failed to update stage"
      [] op = "addStage" -> "Failed to add stage"
      [] op = "deleteStage" -> "Failed to delete stage"
      [] op = "saveNotes" -> "Failed to save notes"
      [] op = "addTest" -> "Failed to save test"
      [] op = "toggleTest" -> "Failed to update test"
      [] op = "deleteTest" -> "Failed to delete test"
      [] op = "complete" -> "Failed to complete project"
      [] op = "kickoff" -> "Failed to update kickoff status"
      [] op = "uncomplete" -> "Failed to update project"
      [] op = "projectForm" -> "Failed to save project. Please try again."
      [] OTHER -> ""

\* Mutation: the saving flag is cleared after the await, not in a finally block
RequestDone_noFinally(i, ok) ==
    /\ mode = "card"
    /\ ~effectPending
    /\ i \in DOMAIN requests
    /\ db' = IF ok THEN ApplyUpdate(db, requests[i]) ELSE db
    /\ dbFields' = IF ok THEN ApplyPatch(dbFields, requests[i].patch) ELSE dbFields
    /\ requests' = RemoveAt(requests, i)
    /\ call' = Call(IF ok THEN "resolved" ELSE "rejected", i, requests[i].op)
    /\ IF requests[i].op = "corrective"
       THEN /\ alertMsg' = ""
            /\ UNCHANGED <<isSaving, refetchPending>>
       ELSE /\ isSaving' = IF requests[i].op = "projectForm" \/ ~ok THEN isSaving ELSE FALSE
            /\ refetchPending' = (refetchPending \/ ok)
            /\ alertMsg' = IF ok THEN "" ELSE FailureAlert(requests[i].op)
    /\ isCompleted' = CASE ok /\ requests[i].op = "complete" -> TRUE
                         [] ok /\ requests[i].op = "uncomplete" -> FALSE
                         [] OTHER -> isCompleted
    /\ leaveDays' = IF ok /\ requests[i].op = "uncomplete" THEN 0 ELSE leaveDays
    /\ kickoffStatus' = IF ~ok /\ requests[i].op = "kickoff" THEN requests[i].revertTo
                        ELSE kickoffStatus
    /\ UNCHANGED <<pentestStages, renderVars, calVars, mode, project,
                   lastProcessedStagesRef, effectPending, timers, timerRef,
                   opsLeft, lastInput, dirty, repeatPass, tests, projectFields,
                   syncPending>>

\* An updateProject call settles: the backend stored the payload (ok) or the
\* call was rejected; then the code after the await runs
RequestDone(i, ok) ==
    /\ mode = "card"
    /\ ~effectPending
    /\ i \in DOMAIN requests
    /\ db' = IF ok THEN ApplyUpdate(db, requests[i]) ELSE db
    /\ dbFields' = IF ok THEN ApplyPatch(dbFields, requests[i].patch) ELSE dbFields
    /\ requests' = RemoveAt(requests, i)
    /\ call' = Call(IF ok THEN "resolved" ELSE "rejected", i, requests[i].op)
    /\ IF requests[i].op = "corrective"
       THEN /\ alertMsg' = ""
            /\ UNCHANGED <<isSaving, refetchPending>>
       ELSE /\ isSaving' = IF requests[i].op = "projectForm" THEN isSaving ELSE FALSE
            /\ refetchPending' = (refetchPending \/ ok)
            /\ alertMsg' = IF ok THEN "" ELSE FailureAlert(requests[i].op)
    /\ isCompleted' = CASE ok /\ requests[i].op = "complete" -> TRUE
                         [] ok /\ requests[i].op = "uncomplete" -> FALSE
                         [] OTHER -> isCompleted
    /\ leaveDays' = IF ok /\ requests[i].op = "uncomplete" THEN 0 ELSE leaveDays
    /\ kickoffStatus' = IF ~ok /\ requests[i].op = "kickoff" THEN requests[i].revertTo
                        ELSE kickoffStatus
    /\ UNCHANGED <<pentestStages, renderVars, calVars, mode, project,
                   lastProcessedStagesRef, effectPending, timers, timerRef,
                   opsLeft, lastInput, dirty, repeatPass, tests, projectFields,
                   syncPending>>

\* onUpdate(): the parent fetches the project again and passes the new record
\* down, which queues the reconcile effect
Refetch ==
    /\ mode = "card"
    /\ ~effectPending
    /\ refetchPending
    /\ refetchPending' = FALSE
    /\ project' = [id |-> project.id, hasStages |-> db.hasStages,
                   pentest_stages |-> db.pentest_stages]
    /\ projectFields' = dbFields
    /\ syncPending' = \/ syncPending
                      \/ dbFields.completed_date # projectFields.completed_date
                      \/ dbFields.leave_days # projectFields.leave_days
                      \/ dbFields.kickoff_status # projectFields.kickoff_status
    /\ effectPending' = TRUE
    /\ alertMsg' = ""
    /\ call' = NoCall
    /\ UNCHANGED <<pentestStages, renderVars, calVars, mode, db,
                   lastProcessedStagesRef, timers, timerRef, isSaving, requests,
                   opsLeft, lastInput, dirty, repeatPass, tests, isCompleted,
                   leaveDays, kickoffStatus, dbFields>>

----------------------------------------------------------------------------
(* Spec: the mounted card *)

\* The useState initialisers of the fields other than the stage list
MountFields(fields) ==
    /\ projectFields = fields
    /\ dbFields = fields
    /\ tests = fields.tests_checklist
    /\ isCompleted = ~IsNullDate(fields.completed_date)
    /\ leaveDays = fields.leave_days
    /\ kickoffStatus = KickoffOf(fields)
    /\ syncPending = TRUE
    /\ call = NoCall

PersistNames == { "Ticket Assigned", "Kickoff", "Custom A" }

\* A stage as stored by the backend; a done stage carries its completion date
PersistedStage(name, done) ==
    [stage |-> name, done |-> done, date |-> IF done THEN "t0" ELSE Null,
     isStatic |-> IsTemplateName(name)]

\* 'Kickoff' is stored done or not done, the other stages not done
PersistedStages ==
    { PersistedStage(n, FALSE) : n \in PersistNames } \cup { PersistedStage("Kickoff", TRUE) }

\* Persisted lists at mount: distinct names in any order
InitStageLists ==
    { l \in UNION { [1..n -> PersistedStages] : n \in 0..MaxInitLen } :
        \A i, j \in DOMAIN l : i # j => l[i].stage # l[j].stage }

InitProjects ==
    { NoProject } \cup
    { [id |-> MountedId, hasStages |-> TRUE, pentest_stages |-> l] : l \in InitStageLists }

Init ==
    /\ mode = "card"
    /\ project \in InitProjects
    /\ db = [hasStages |-> project.hasStages, pentest_stages |-> project.pentest_stages,
             progress_percentage |-> calculateWeightedProgress(project.pentest_stages)]
    /\ pentestStages = initializePentestStages(project)
    /\ progress = calculateWeightedProgress(pentestStages)
    /\ totalStages = Len(pentestStages)
    /\ completedStages = CountCompleted(pentestStages)
    /\ InitCalendarIdle
    /\ lastProcessedStagesRef = KeyUnset
    /\ effectPending = TRUE
    /\ timers = <<>>
    /\ timerRef = NoRefs(pentestStages)
    /\ isSaving = FALSE
    /\ requests = <<>>
    /\ refetchPending = FALSE
    /\ alertMsg = ""
    /\ opsLeft = MaxOps
    /\ lastInput = project
    /\ dirty = FALSE
    /\ repeatPass = FALSE
    /\ MountFields(DefaultFields)

Next ==
    \/ ReconcileEffect
    \/ FireTimer
    \/ \E index \in 1..(Len(STATIC_PENTEST_STAGES) + MaxOps) : handleToggleStage(index)
    \/ \E newStage \in StageInputs : handleAddStage(newStage)
    \/ \E index \in 1..(Len(STATIC_PENTEST_STAGES) + MaxOps) : handleDeleteStage(index)
    \/ handleSaveNotes
    \/ \E i \in 1..(MaxOps + MaxOps), ok \in BOOLEAN : RequestDone(i, ok)
    \/ Refetch

Spec == Init /\ [][Next]_vars

----------------------------------------------------------------------------
(* SpecLifecycle: the mounted card on one stage list *)

\* A checklist item as stored by the backend
PersistedTest(text, done) ==
    [test |-> text, done |-> done, date |-> IF done THEN "t0" ELSE Null]

Saturday == [day |-> 6, tod |-> 0]
Friday == [day |-> 5, tod |-> 1]

\* Persisted projects at mount: the default project and projects that differ
\* from it in one respect (no start date, started on a Saturday, completed
\* on the first Friday without leave, no kickoff status, one done checklist
\* item)
InitFields ==
    { DefaultFields,
      [DefaultFields EXCEPT !.start_date = NullDate],
      [DefaultFields EXCEPT !.start_date = Saturday],
      [DefaultFields EXCEPT !.status = "past", !.completed_date = Friday,
                            !.leave_days = 0, !.business_days_worked = 5],
      [DefaultFields EXCEPT !.kickoff_status = ""],
      [DefaultFields EXCEPT !.tests_checklist = <<PersistedTest("Recon", TRUE)>>] }

InitLifecycle ==
    /\ mode = "card"
    /\ project = [id |-> MountedId, hasStages |-> TRUE,
                  pentest_stages |-> <<PersistedStage("Kickoff", FALSE)>>]
    /\ db = [hasStages |-> project.hasStages, pentest_stages |-> project.pentest_stages,
             progress_percentage |-> calculateWeightedProgress(project.pentest_stages)]
    /\ pentestStages = initializePentestStages(project)
    /\ progress = calculateWeightedProgress(pentestStages)
    /\ totalStages = Len(pentestStages)
    /\ completedStages = CountCompleted(pentestStages)
    /\ InitCalendarIdle
    /\ lastProcessedStagesRef = KeyUnset
    /\ effectPending = TRUE
    /\ timers = <<>>
    /\ timerRef = NoRefs(pentestStages)
    /\ isSaving = FALSE
    /\ requests = <<>>
    /\ refetchPending = FALSE
    /\ alertMsg = ""
    /\ opsLeft = MaxLifeOps
    /\ lastInput = project
    /\ dirty = FALSE
    /\ repeatPass = FALSE
    /\ \E fields \in InitFields : MountFields(fields)

NextLifecycle ==
    \/ ReconcileEffect
    \/ \E newTest \in TestInputs : handleAddTest(newTest)
    \/ \E index \in 1..(1 + MaxLifeOps) : handleToggleTest(index)
    \/ \E index \in 1..(1 + MaxLifeOps) : handleDeleteTest(index)
    \/ \E typed \in 0..MaxLeave : ChangeLeaveDays(typed)
    \/ \E now \in NowDates : handleCompleteProject(now)
    \/ \E newStatus \in KickoffOptions : handleKickoffStatusChange(newStatus)
    \/ \E confirmed \in BOOLEAN : handleUncompleteProject(confirmed)
    \/ handleSaveNotes
    \/ \E status \in FormStatusOptions : ProjectFormSubmit(status)
    \/ \E i \in 1..MaxLifeOps, ok \in BOOLEAN : RequestDone(i, ok)
    \/ Refetch

SpecLifecycle == InitLifecycle /\ [][NextLifecycle]_vars

----------------------------------------------------------------------------
(* SpecCard: the mounted card with every handler and one user operation *)

\* Persisted stage lists at mount: static stages out of template order with
\* the second one done, and one custom stage
CardStageLists ==
    { <<PersistedStage("Kickoff", TRUE), PersistedStage("Ticket Assigned", FALSE)>>,
      <<PersistedStage("Custom A", FALSE)>> }

InitCard ==
    /\ mode = "card"
    /\ \E l \in CardStageLists :
          project = [id |-> MountedId, hasStages |-> TRUE, pentest_stages |-> l]
    /\ db = [hasStages |-> project.hasStages, pentest_stages |-> project.pentest_stages,
             progress_percentage |-> calculateWeightedProgress(project.pentest_stages)]
    /\ pentestStages = initializePentestStages(project)
    /\ progress = calculateWeightedProgress(pentestStages)
    /\ totalStages = Len(pentestStages)
    /\ completedStages = CountCompleted(pentestStages)
    /\ InitCalendarIdle
    /\ lastProcessedStagesRef = KeyUnset
    /\ effectPending = TRUE
    /\ timers = <<>>
    /\ timerRef = NoRefs(pentestStages)
    /\ isSaving = FALSE
    /\ requests = <<>>
    /\ refetchPending = FALSE
    /\ alertMsg = ""
    /\ opsLeft = MaxOps
    /\ lastInput = project
    /\ dirty = FALSE
    /\ repeatPass = FALSE
    /\ \E fields \in InitFields : MountFields(fields)

NextCard ==
    \/ ReconcileEffect
    \/ FireTimer
    \/ \E index \in 1..(Len(STATIC_PENTEST_STAGES) + MaxOps) : handleToggleStage(index)
    \/ \E newStage \in StageInputs : handleAddStage(newStage)
    \/ \E index \in 1..(Len(STATIC_PENTEST_STAGES) + MaxOps) : handleDeleteStage(index)
    \/ \E newTest \in TestInputs : handleAddTest(newTest)
    \/ \E index \in 1..(1 + MaxOps) : handleToggleTest(index)
    \/ \E index \in 1..(1 + MaxOps) : handleDeleteTest(index)
    \/ \E typed \in 0..MaxLeave : ChangeLeaveDays(typed)
    \/ \E now \in NowDates : handleCompleteProject(now)
    \/ \E newStatus \in KickoffOptions : handleKickoffStatusChange(newStatus)
    \/ \E confirmed \in BOOLEAN : handleUncompleteProject(confirmed)
    \/ handleSaveNotes
    \/ \E status \in FormStatusOptions : ProjectFormSubmit(status)
    \/ \E i \in 1..(MaxOps + MaxOps), ok \in BOOLEAN : RequestDone(i, ok)
    \/ Refetch

SpecCard == InitCard /\ [][NextCard]_vars

----------------------------------------------------------------------------
(* SpecSwitch: the parent hands the mounted card another engagement *)

\* project.id of the other engagement
OtherId == "p2"

\* The same stages with the completion dates of the other engagement
Redate(stages) ==
    [i \in DOMAIN stages |-> [stages[i] EXCEPT !.date = IF @ = Null THEN Null ELSE "t1"]]

\* Stage lists stored for the other engagement: the names and done flags of
\* the list stored for the first one with other completion dates, or a list
\* of its own
OtherStageLists(stored) ==
    { Redate(stored), <<PersistedStage("Ticket Assigned", FALSE)>> }

\* The parent re-renders the card with the record of another engagement: the
\* props change, the state hooks and refs of the instance stay, and the
\* effects whose dependencies changed are queued. The other engagement has
\* the same completion, kickoff and checklist fields.
SwitchProject ==
    /\ mode = "card"
    /\ ~effectPending
    /\ project.id = MountedId
    /\ db.hasStages
    /\ requests = <<>>
    /\ timers = <<>>
    /\ ~refetchPending
    /\ \E l \in OtherStageLists(db.pentest_stages) :
          /\ project' = [id |-> OtherId, hasStages |-> TRUE, pentest_stages |-> l]
          /\ db' = [hasStages |-> TRUE, pentest_stages |-> l,
                    progress_percentage |-> calculateWeightedProgress(l)]
    /\ effectPending' = TRUE
    /\ alertMsg' = ""
    /\ call' = NoCall
    /\ UNCHANGED <<pentestStages, renderVars, calVars, mode, lastProcessedStagesRef,
                   timers, timerRef, isSaving, requests, refetchPending, opsLeft,
                   lastInput, dirty, repeatPass, lifeVars>>

NextSwitch == NextCard \/ SwitchProject

SpecSwitch == InitCard /\ [][NextSwitch]_vars

----------------------------------------------------------------------------
(* SpecReload: the parent reloads the record at any time *)

\* The parent fetches the record again (navigation, polling, a refresh asked
\* by another component) and re-renders the card with it: the stage array is
\* a new array, so the reconcile effect is queued even when nothing changed
Reload ==
    /\ mode = "card"
    /\ ~effectPending
    /\ ~refetchPending
    /\ project' = [id |-> project.id, hasStages |-> db.hasStages,
                   pentest_stages |-> db.pentest_stages]
    /\ projectFields' = dbFields
    /\ syncPending' = \/ syncPending
                      \/ dbFields.completed_date # projectFields.completed_date
                      \/ dbFields.leave_days # projectFields.leave_days
                      \/ dbFields.kickoff_status # projectFields.kickoff_status
    /\ effectPending' = TRUE
    /\ alertMsg' = ""
    /\ call' = NoCall
    /\ UNCHANGED <<pentestStages, renderVars, calVars, mode, db,
                   lastProcessedStagesRef, timers, timerRef, isSaving, requests,
                   refetchPending, opsLeft, lastInput, dirty, repeatPass, tests,
                   isCompleted, leaveDays, kickoffStatus, dbFields>>

\* No user operation: the stored order changes by corrective writes alone
NextReload ==
    \/ ReconcileEffect
    \/ FireTimer
    \/ \E i \in 1..(MaxOps + MaxOps), ok \in BOOLEAN : RequestDone(i, ok)
    \/ Reload

\* Effects are flushed after the render that queued them; a timer fires and
\* every request settles, however often a render and its effects come in
\* between; the user and the parent act when they like
ReloadFairness ==
    /\ WF_vars(ReconcileEffect)
    /\ SF_vars(FireTimer)
    /\ SF_vars(\E i \in 1..(MaxOps + MaxOps), ok \in BOOLEAN : RequestDone(i, ok))

SpecReload == Init /\ [][NextReload]_vars /\ ReloadFairness

----------------------------------------------------------------------------
(* SpecSaving: the card of SpecCard on one stage list, scheduled *)

\* The project is ongoing with one checklist item, or completed
SavingFields ==
    { fields \in InitFields :
        fields.tests_checklist # <<>> \/ ~IsNullDate(fields.completed_date) }

InitSaving ==
    /\ InitCard
    /\ StageNames(project.pentest_stages) = << "Kickoff", "Ticket Assigned" >>
    /\ projectFields \in SavingFields

\* Every request settles, effects are flushed after the render that queued
\* them, and a timer fires
CardFairness ==
    /\ WF_vars(ReconcileEffect)
    /\ WF_vars(FireTimer)
    /\ WF_vars(\E i \in 1..(MaxOps + MaxOps), ok \in BOOLEAN : RequestDone(i, ok))

SpecSaving == InitSaving /\ [][NextCard]_vars /\ CardFairness

----------------------------------------------------------------------------
(* Properties of the progress calculator (SpecProgress) *)

NameSet(names) == { names[i] : i \in DOMAIN names }

\* positions of the local view holding a stage of the group / a done one
PositionsIn(group) == { i \in DOMAIN pentestStages : pentestStages[i].stage \in NameSet(group) }
DonePositionsIn(group) == { i \in PositionsIn(group) : pentestStages[i].done }

WeightedNames ==
    NameSet(PREPARATION_STAGES) \cup NameSet(MAIN_TESTING_STAGES) \cup NameSet(FINAL_STAGES)

\* every one of the 14 weighted canonical stages is in the list, once
CoversWeighted ==
    \A n \in WeightedNames :
        Cardinality({ i \in DOMAIN pentestStages : pentestStages[i].stage = n }) = 1

DoneCount(group) == Cardinality(DonePositionsIn(group))
TotalCount(group) == Cardinality(PositionsIn(group))

\* round(p/2*10 + m/7*80 + f/5*10) over the common denominator 2*7*5
FullCoverageValue(p, m, f) ==
    (2 * (p * 10 * 7 * 5 + m * 80 * 2 * 5 + f * 10 * 2 * 7) + 2 * 7 * 5) \div (2 * (2 * 7 * 5))

\* C1: for a list holding all 14 weighted canonical stages with p, m, f of the
\* Preparation, Main Testing and Final stages done, the progress is
\* round(p/2*10 + m/7*80 + f/5*10): 100 for (2,7,5), 5 for (1,0,0), 34 for
\* (0,3,0); a group with no stage in the list contributes 0, so a list with
\* stages of one group only gets that group's share and a list with no
\* weighted stage gets 0.
C1_FullCoverageFormula ==
    LET p == DoneCount(PREPARATION_STAGES)
        m == DoneCount(MAIN_TESTING_STAGES)
        f == DoneCount(FINAL_STAGES)
        pt == TotalCount(PREPARATION_STAGES)
        mt == TotalCount(MAIN_TESTING_STAGES)
        ft == TotalCount(FINAL_STAGES)
    IN  mode = "progress" =>
        /\ CoversWeighted => progress = FullCoverageValue(p, m, f)
        /\ (CoversWeighted /\ p = 2 /\ m = 7 /\ f = 5) => progress = 100
        /\ (CoversWeighted /\ p = 1 /\ m = 0 /\ f = 0) => progress = 5
        /\ (CoversWeighted /\ p = 0 /\ m = 3 /\ f = 0) => progress = 34
        /\ (pt > 0 /\ mt = 0 /\ ft = 0) => progress = (2 * p * 10 + pt) \div (2 * pt)
        /\ (pt = 0 /\ mt > 0 /\ ft = 0) => progress = (2 * m * 80 + mt) \div (2 * mt)
        /\ (pt = 0 /\ mt = 0 /\ ft > 0) => progress = (2 * f * 10 + ft) \div (2 * ft)
        /\ (pt = 0 /\ mt = 0 /\ ft = 0) => progress = 0

\* three of the seven Main Testing stages done in a full list: 34
C1_Witness ==
    /\ mode = "progress"
    /\ CoversWeighted
    /\ DoneCount(PREPARATION_STAGES) = 0
    /\ DoneCount(MAIN_TESTING_STAGES) = 3
    /\ DoneCount(FINAL_STAGES) = 0
    /\ progress = 34

\* C2: for every stage list (canonical, custom, missing or repeated names, any
\* done flags) the progress is an integer from 0 to 100.
C2_ProgressInRange ==
    mode = "progress" => progress \in 0..100

\* a list with a repeated weighted name, a custom stage and missing groups
C2_Witness ==
    /\ mode = "progress"
    /\ \E i, j \in DOMAIN pentestStages :
          /\ i # j
          /\ pentestStages[i].stage = pentestStages[j].stage
          /\ pentestStages[i].stage \in WeightedNames
          /\ pentestStages[i].done # pentestStages[j].done
    /\ \E i \in DOMAIN pentestStages : pentestStages[i].stage \notin NameSet(STATIC_PENTEST_STAGES)
    /\ progress \in 1..99

\* the list with the done flag of stage i flipped
FlipDone(stages, i) == [stages EXCEPT ![i] = [@ EXCEPT !.done = ~@]]

\* C3: 'Ticket Assigned' and custom stages contribute nothing to the weighted
\* progress: flipping the done flag of such a stage leaves the progress as it
\* is, a list of such stages only has progress 0, and the stages still count
\* in the completed/total stage counter.
C3_UnweightedStagesContributeZero ==
    mode = "progress" =>
        /\ \A i \in DOMAIN pentestStages :
              pentestStages[i].stage \notin WeightedNames
                  => calculateWeightedProgress(FlipDone(pentestStages, i)) = progress
        /\ (\A i \in DOMAIN pentestStages : pentestStages[i].stage \notin WeightedNames)
              => progress = 0
        /\ totalStages = Len(pentestStages)
        /\ completedStages = Cardinality({ i \in DOMAIN pentestStages : pentestStages[i].done })

\* 'Ticket Assigned' and a custom stage, both done, next to an undone weighted
\* stage: counted 2 of 3, progress 0
C3_Witness ==
    /\ mode = "progress"
    /\ \E i \in DOMAIN pentestStages :
          pentestStages[i].stage = "Ticket Assigned" /\ pentestStages[i].done
    /\ \E i \in DOMAIN pentestStages :
          pentestStages[i].stage = "Custom A" /\ pentestStages[i].done
    /\ \E i \in DOMAIN pentestStages :
          pentestStages[i].stage \in WeightedNames /\ ~pentestStages[i].done
    /\ completedStages = 2
    /\ totalStages = 3
    /\ progress = 0

----------------------------------------------------------------------------
(* Properties of the calendar utility (SpecCalendar) *)

\* Monday to Friday
IsBusinessDay(day) == day % 7 \in 1..5

\* C4: the result is the number of Monday-to-Friday days in the closed
\* interval from the start day to the end day (both taken at local midnight),
\* and 0 when the start day is after the end day; Monday..Friday gives 5,
\* Saturday..Sunday 0, one business day 1.
C4_BusinessDaysClosedInterval ==
    (mode = "calendar_done" /\ ~IsNullDate(startDate) /\ ~IsNullDate(endDate)) =>
        /\ businessDays =
              IF startDate.day > endDate.day THEN 0
              ELSE Cardinality({ d \in startDate.day..endDate.day : IsBusinessDay(d) })
        /\ (startDate.day % 7 = 1 /\ endDate.day = startDate.day + 4) => businessDays = 5
        /\ (startDate.day % 7 = 6 /\ endDate.day = startDate.day + 1) => businessDays = 0
        /\ (startDate.day = endDate.day /\ IsBusinessDay(startDate.day)) => businessDays = 1

\* Monday afternoon to Friday midnight of the same week: 5
C4_Witness ==
    /\ mode = "calendar_done"
    /\ startDate = [day |-> 1, tod |-> 1]
    /\ endDate = [day |-> 5, tod |-> 0]
    /\ businessDays = 5

----------------------------------------------------------------------------
(* Properties of the reconcile effect (Spec) *)

TemplateNames == NameSet(STATIC_PENTEST_STAGES)

TemplateIndex(name) == CHOOSE t \in DOMAIN STATIC_PENTEST_STAGES : STATIC_PENTEST_STAGES[t] = name

\* names of the stages of a list that are tagged static / that are template names
StaticNamesOf(stages) == { stages[i].stage : i \in { j \in DOMAIN stages : stages[j].isStatic } }
TemplateNamesIn(stages) == { stages[i].stage : i \in DOMAIN stages } \cap TemplateNames

\* a step of the reconcile effect, and one that is not cut short by the guard
ReconcilePass == effectPending /\ ~effectPending'
PassRuns == ReconcilePass /\ currentStagesKey(project) # lastProcessedStagesRef

\* C5: a canonical stage that is absent from the persisted list is never in
\* the local view and never written back: in every state, from the mount on,
\* the static stage names of the local view and of every write in flight are
\* among the names of the persisted list last handed to the Reconciler,
\* unless that list is missing.
C5_NoInventedStaticStage ==
    (mode = "card" /\ lastInput.hasStages) =>
        /\ StaticNamesOf(pentestStages) \subseteq TemplateNamesIn(lastInput.pentest_stages)
        /\ \A i \in DOMAIN requests :
              requests[i].hasStages =>
                  StaticNamesOf(requests[i].pentest_stages)
                      \subseteq TemplateNamesIn(lastInput.pentest_stages)

\* the input stage with isStatic set by template membership
Tagged(s) == [s EXCEPT !.isStatic = (s.stage \in TemplateNames)]

Occurrences(stages, s) == Cardinality({ i \in DOMAIN stages : stages[i] = s })

\* the view described by the claim for a persisted input
IsReconciledView(input, view) ==
    LET tagged == [i \in DOMAIN input |-> Tagged(input[i])]
    IN  /\ Len(view) = Len(input)
        /\ \A i \in DOMAIN tagged : Occurrences(view, tagged[i]) = Occurrences(tagged, tagged[i])
        /\ \A i, j \in DOMAIN view :
              (i < j /\ view[j].isStatic) =>
                  /\ view[i].isStatic
                  /\ TemplateIndex(view[i].stage) <= TemplateIndex(view[j].stage)
        /\ SelectSeq(view, IsCustomStage) = SelectSeq(tagged, IsCustomStage)

\* C6: for every non-empty persisted list the reconciled view is the static
\* stages of the input in template order followed by the custom stages in
\* input order, every input stage once with done and date unchanged, static
\* ones tagged isStatic and custom ones not.
C6_CandidateView ==
    [][ (PassRuns /\ project.hasStages /\ Len(project.pentest_stages) > 0)
            => IsReconciledView(project.pentest_stages, pentestStages') ]_vars

\* the same statement for persisted lists without a repeated name
C6_CandidateViewDistinctNames ==
    [][ (/\ PassRuns
         /\ project.hasStages
         /\ Len(project.pentest_stages) > 0
         /\ \A i, j \in DOMAIN project.pentest_stages :
               i # j => project.pentest_stages[i].stage # project.pentest_stages[j].stage)
            => IsReconciledView(project.pentest_stages, pentestStages') ]_vars

\* the template names of a persisted list, in list order
StaticSequence(stages) == StageNames(SelectSeq(stages, InTemplate))

NoRepeat(names) == \A i, j \in DOMAIN names : i # j => names[i] # names[j]

InTemplateOrder(names) ==
    \A i, j \in DOMAIN names : i < j => TemplateIndex(names[i]) <= TemplateIndex(names[j])

\* the persisted static stages are those of the view, each once, out of order
PureReorder(stages) ==
    /\ NoRepeat(StaticSequence(stages))
    /\ ~InTemplateOrder(StaticSequence(stages))

CorrectiveInFlight(rs) == Cardinality({ i \in DOMAIN rs : rs[i].op = "corrective" })

\* C7: a pass over a persisted list whose static stages are those of the
\* candidate view in another order than the template schedules exactly one
\* corrective write, carrying the candidate view; a pass over a list whose
\* static stages are in template order, or over an empty or missing list, or
\* a pass cut short by the guard, schedules none; each scheduled write is
\* issued as one updateProject call, and no other step issues one.
C7_OneCorrectiveWrite ==
    [][ /\ (PassRuns /\ project.hasStages /\ PureReorder(project.pentest_stages))
            => /\ Len(timers') = Len(timers) + 1
               /\ timers'[Len(timers')].pentest_stages = pentestStages'
               /\ IsReconciledView(project.pentest_stages, pentestStages')
        /\ (/\ ReconcilePass
            /\ \/ ~PassRuns
               \/ ~project.hasStages
               \/ project.pentest_stages = <<>>
               \/ InTemplateOrder(StaticSequence(project.pentest_stages)))
            => Len(timers') = Len(timers)
        /\ ~ReconcilePass => Len(timers') <= Len(timers)
        /\ CorrectiveInFlight(requests') > CorrectiveInFlight(requests)
            => /\ Len(timers') = Len(timers) - 1
               /\ CorrectiveInFlight(requests') = CorrectiveInFlight(requests) + 1
               /\ requests'[Len(requests')].pentest_stages = Head(timers).pentest_stages
        /\ Len(timers') < Len(timers)
            => CorrectiveInFlight(requests') = CorrectiveInFlight(requests) + 1 ]_vars

\* the corrective write of a reordered input is in flight with the candidate view
C7_Witness ==
    /\ mode = "card"
    /\ lastInput.hasStages
    /\ PureReorder(lastInput.pentest_stages)
    /\ ~dirty
    /\ timers = <<>>
    /\ \E i \in DOMAIN requests :
          /\ requests[i].op = "corrective"
          /\ requests[i].pentest_stages = pentestStages
          /\ StageNames(requests[i].pentest_stages) # StageNames(lastInput.pentest_stages)

\* C8: the progress_percentage of a corrective write is the weighted progress
\* of the stage list sent in the same write.
C8_CorrectiveProgressIsWeighted ==
    \A i \in DOMAIN requests :
        requests[i].op = "corrective" =>
            requests[i].progress_percentage
                = calculateWeightedProgress(requests[i].pentest_stages)

\* C9: a second pass over the persisted list of the pass before it, with no
\* stage mutation in between, leaves the view as the first pass left it and
\* schedules no corrective write.
C9_SecondPassIdempotent ==
    [][ (/\ ReconcilePass
         /\ lastProcessedStagesRef # KeyUnset
         /\ project = lastInput
         /\ ~dirty)
            => /\ pentestStages' = pentestStages
               /\ timers' = timers ]_vars

\* a second pass over a reordered input whose corrective write is still waiting
C9_Witness ==
    /\ mode = "card"
    /\ repeatPass
    /\ ~effectPending
    /\ lastInput.hasStages
    /\ PureReorder(lastInput.pentest_stages)
    /\ Len(timers) = 1

\* C10: a pass over a missing or empty persisted list sets the view to the 15
\* template stages in template order, each not done, without date, static.
C10_SeedsFullTemplate ==
    [][ (PassRuns /\ (~project.hasStages \/ project.pentest_stages = <<>>))
            => pentestStages' =
                  [t \in DOMAIN STATIC_PENTEST_STAGES |->
                      [stage |-> STATIC_PENTEST_STAGES[t], done |-> FALSE,
                       date |-> Null, isStatic |-> TRUE]] ]_vars

\* the same statement for the missing list alone
C10_SeedsFullTemplateWhenMissing ==
    [][ (PassRuns /\ ~project.hasStages)
            => pentestStages' =
                  [t \in DOMAIN STATIC_PENTEST_STAGES |->
                      [stage |-> STATIC_PENTEST_STAGES[t], done |-> FALSE,
                       date |-> Null, isStatic |-> TRUE]] ]_vars

----------------------------------------------------------------------------
(* Properties of the stage handlers (Spec) *)

\* the step is a call of the named handler
Called(op) == call'.op = op /\ (call' # call \/ requests' # requests \/ opsLeft' # opsLeft)

\* C11: deleting a static stage is refused (view, saving flag, backend record
\* and requests in flight unchanged); deleting a non-static stage removes that
\* stage alone, keeps the others in order and sends the new list with its
\* weighted progress, which the backend stores when the write succeeds.
C11_DeleteStage ==
    [][ /\ Called("deleteStage") =>
            LET index == call'.index
            IN  IF pentestStages[index].isStatic
                THEN /\ pentestStages' = pentestStages
                     /\ isSaving' = isSaving
                     /\ db' = db
                     /\ requests' = requests
                ELSE /\ pentestStages' = RemoveAt(pentestStages, index)
                     /\ requests' = Append(requests,
                            Request("deleteStage", TRUE, RemoveAt(pentestStages, index), TRUE,
                                    calculateWeightedProgress(RemoveAt(pentestStages, index))))
        /\ \A i \in DOMAIN requests :
              (requests[i].op = "deleteStage" /\ requests' = RemoveAt(requests, i) /\ db' # db)
                  => /\ db'.pentest_stages = requests[i].pentest_stages
                     /\ db'.progress_percentage = requests[i].progress_percentage ]_vars

\* a custom stage was deleted from a view that keeps a done stage, and the
\* write is in flight
C11_Witness ==
    /\ mode = "card"
    /\ call.op = "deleteStage"
    /\ \E i \in DOMAIN requests : requests[i].op = "deleteStage"
    /\ \E i \in DOMAIN pentestStages : pentestStages[i].done

\* a delete call on a static stage was refused
C11_RefusedWitness ==
    /\ mode = "card"
    /\ call.op = "deleteStage"
    /\ alertMsg = "Cannot delete static pentesting stages"

\* a stage is done exactly when it carries a completion date
DatesMatchDone(stages) ==
    \A i \in DOMAIN stages : stages[i].done <=> (stages[i].date # Null)

\* C12: from a view in which every stage is done exactly when it has a date,
\* every step leads to such a view; a toggleStage(i) step flips done of stage
\* i and keeps the length, every name and isStatic, and the done and date of
\* every other stage.
C12_ToggleStage ==
    [][ DatesMatchDone(pentestStages) =>
          /\ DatesMatchDone(pentestStages')
          /\ Called("toggleStage") =>
                /\ Len(pentestStages') = Len(pentestStages)
                /\ pentestStages'[call'.index].done = ~pentestStages[call'.index].done
                /\ \A i \in DOMAIN pentestStages :
                      /\ pentestStages'[i].stage = pentestStages[i].stage
                      /\ pentestStages'[i].isStatic = pentestStages[i].isStatic
                      /\ i # call'.index => pentestStages'[i] = pentestStages[i] ]_vars

\* a done stage was toggled back to not done next to another stage, and its
\* date is gone
C12_Witness ==
    /\ mode = "card"
    /\ call.op = "toggleStage"
    /\ Len(pentestStages) > 1
    /\ ~pentestStages[call.index].done
    /\ pentestStages[call.index].date = Null
    /\ db.hasStages
    /\ call.index \in DOMAIN db.pentest_stages
    /\ db.pentest_stages[call.index].done

\* C14: no two stages of the local view, of the stored list or of a list on
\* its way to the backend have the same name.
C14_UniqueStageNames ==
    /\ NoRepeat(StageNames(pentestStages))
    /\ NoRepeat(StageNames(db.pentest_stages))
    /\ \A i \in DOMAIN requests : NoRepeat(StageNames(requests[i].pentest_stages))

\* the stages of a list that addCustomStage or the backend marked as custom
FlaggedCustom(stages) ==
    LET NotStatic(s) == ~s.isStatic
    IN  SelectSeq(stages, NotStatic)

\* the last n elements of a list
LastN(stages, n) == SubSeq(stages, Len(stages) - n + 1, Len(stages))

\* C15: addCustomStage with a blank name changes nothing and sends nothing;
\* with another name it appends {name, not done, no date, not static} and
\* keeps every existing stage at its position, and reconciling the resulting
\* list calls for no corrective write and yields a view that ends with the
\* custom stages in their insertion order.
C15_AddCustomStage ==
    [][ Called("addStage") =>
          IF Trim(call'.text) = ""
          THEN /\ pentestStages' = pentestStages
               /\ requests' = requests
               /\ isSaving' = isSaving
          ELSE /\ pentestStages' = Append(pentestStages, NewStage(Trim(call'.text), FALSE))
               /\ requests'[Len(requests')].pentest_stages = pentestStages'
               /\ ~ShouldSaveOrder(pentestStages')
               /\ StageNames(LastN(updatedStagesOf(pentestStages'),
                                   Len(FlaggedCustom(pentestStages'))))
                     = StageNames(FlaggedCustom(pentestStages')) ]_vars

\* the same statement without the reconciliation of the resulting list
C15_AddAppendsAtTail ==
    [][ Called("addStage") =>
          IF Trim(call'.text) = ""
          THEN /\ pentestStages' = pentestStages
               /\ requests' = requests
               /\ isSaving' = isSaving
          ELSE /\ pentestStages' = Append(pentestStages, NewStage(Trim(call'.text), FALSE))
               /\ requests'[Len(requests')].pentest_stages = pentestStages' ]_vars

\* the reconcile pass over a stored list that ends with a stage added under a
\* template name schedules a corrective write
C15_ReorderAfterAdd ==
    /\ mode = "card"
    /\ timers # <<>>
    /\ project.pentest_stages # <<>>
    /\ LET last == project.pentest_stages[Len(project.pentest_stages)]
       IN  IsTemplateName(last.stage) /\ ~last.isStatic

----------------------------------------------------------------------------
(* Properties of the checklist, completion and kickoff handlers (SpecLifecycle) *)

\* C13: in the local checklist and in the stored one, an item that is not
\* done carries no completion date.
C13_UndoneTestHasNoDate ==
    /\ \A i \in DOMAIN tests : ~tests[i].done => tests[i].date = Null
    /\ \A i \in DOMAIN dbFields.tests_checklist :
          ~dbFields.tests_checklist[i].done => dbFields.tests_checklist[i].date = Null

\* the payload of the newest request
LastPatch(rs) == rs[Len(rs)].patch

CompletionKeys == { "status", "completed_date", "leave_days", "business_days_worked" }

\* C16: completeEngagement sends status past, the completion instant, the
\* local leave days and max(0, business days from start to that instant minus
\* the leave days), which is never negative and is 4 for a Monday start, a
\* Friday completion in the same week and one leave day; the backend stores
\* these values when the write succeeds.
C16_CompletePayload ==
    [][ /\ Called("complete") =>
            LET sent == LastPatch(requests').val
                now == sent.completed_date
            IN  /\ Len(requests') = Len(requests) + 1
                /\ LastPatch(requests').keys = CompletionKeys
                /\ sent.status = "past"
                /\ now \in NowDates
                /\ sent.leave_days = leaveDays
                /\ sent.business_days_worked =
                      Max0(calculateBusinessDays(projectFields.start_date, now) - leaveDays)
                /\ sent.business_days_worked >= 0
                /\ (projectFields.start_date = Monday /\ now = Friday /\ leaveDays = 1)
                      => sent.business_days_worked = 4
        /\ \A i \in DOMAIN requests :
              (requests[i].op = "complete" /\ requests' = RemoveAt(requests, i)
                 /\ dbFields' # dbFields)
                  => /\ dbFields'.status = "past"
                     /\ dbFields'.completed_date = requests[i].patch.val.completed_date
                     /\ dbFields'.leave_days = requests[i].patch.val.leave_days
                     /\ dbFields'.business_days_worked =
                           requests[i].patch.val.business_days_worked ]_vars

\* the backend stored a completion on the first Friday of a project started
\* on Monday, with one leave day and four business days worked
C16_Witness ==
    /\ mode = "card"
    /\ isCompleted
    /\ requests = <<>>
    /\ dbFields.status = "past"
    /\ dbFields.start_date = Monday
    /\ dbFields.completed_date = Friday
    /\ dbFields.leave_days = 1
    /\ dbFields.business_days_worked = 4

\* a completion whose leave days exceed the business days was sent with zero
\* business days worked
C16_ClampWitness ==
    /\ mode = "card"
    /\ call.op = "complete"
    /\ leaveDays > 0
    /\ projectFields.start_date = Saturday
    /\ LastPatch(requests).val.business_days_worked = 0

\* request i settled in this step and the backend accepted it
Succeeded(i) ==
    /\ i \in DOMAIN requests
    /\ requests' = RemoveAt(requests, i)
    /\ Len(requests') < Len(requests)
    /\ alertMsg' = ""

\* C17: an uncomplete call that the user does not confirm sends nothing and
\* changes no state of the card or the backend; a confirmed one sends one
\* request, and when that write succeeds the stored record has status
\* ongoing, no completion date, zero leave days and zero business days
\* worked, and the card has its completion flag off and zero leave days.
C17_Uncomplete ==
    [][ /\ (Called("uncomplete") /\ call'.text = "cancel") =>
              /\ requests' = requests
              /\ UNCHANGED <<stageVars, isSaving, lifeVars>>
        /\ (Called("uncomplete") /\ call'.text = "ok") =>
              /\ Len(requests') = Len(requests) + 1
              /\ requests'[Len(requests')].op = "uncomplete"
        /\ \A i \in DOMAIN requests :
              (requests[i].op = "uncomplete" /\ Succeeded(i))
                  => /\ dbFields'.status = "ongoing"
                     /\ IsNullDate(dbFields'.completed_date)
                     /\ dbFields'.leave_days = 0
                     /\ dbFields'.business_days_worked = 0
                     /\ ~isCompleted'
                     /\ leaveDays' = 0 ]_vars

\* the backend dropped the completion date of a completed project and the
\* card, still holding the completed record, shows it as not completed
C17_Witness ==
    /\ mode = "card"
    /\ ~IsNullDate(projectFields.completed_date)
    /\ IsNullDate(dbFields.completed_date)
    /\ dbFields.status = "ongoing"
    /\ dbFields.business_days_worked = 0
    /\ ~isCompleted
    /\ leaveDays = 0

\* the user declined the confirmation of an uncomplete call
C17_CancelWitness ==
    /\ mode = "card"
    /\ call.op = "uncomplete"
    /\ call.text = "cancel"
    /\ isCompleted

\* the stored status is ongoing or past, and past exactly with a completion date
StatusMatchesDate(fields) ==
    /\ fields.status \in { "ongoing", "past" }
    /\ fields.status = "past" <=> ~IsNullDate(fields.completed_date)

\* C18: the stored status is always ongoing or past and is past exactly when
\* the completion date is set; it becomes past only when a completeEngagement
\* write succeeds and ongoing only when an uncompleteEngagement write
\* succeeds, so no stage, test, notes, kickoff, corrective or edit-form write
\* changes it.
C18_StatusMachine ==
    [][ /\ StatusMatchesDate(dbFields')
        /\ dbFields'.status # dbFields.status =>
              \E i \in DOMAIN requests :
                  /\ Succeeded(i)
                  /\ \/ requests[i].op = "complete" /\ dbFields'.status = "past"
                     \/ requests[i].op = "uncomplete" /\ dbFields'.status = "ongoing" ]_vars

\* the same statement for the writes of the card alone: a write of the
\* project edit form is left out of both parts
C18_StatusMachineOfCard ==
    [][ (\A i \in DOMAIN requests : requests[i].op = "projectForm" => ~Succeeded(i)) =>
          /\ StatusMatchesDate(dbFields) => StatusMatchesDate(dbFields')
          /\ dbFields'.status # dbFields.status =>
                \E i \in DOMAIN requests :
                    /\ Succeeded(i)
                    /\ \/ requests[i].op = "complete" /\ dbFields'.status = "past"
                       \/ requests[i].op = "uncomplete" /\ dbFields'.status = "ongoing" ]_vars

\* request i settled in this step
Settled(i) ==
    /\ i \in DOMAIN requests
    /\ requests' = RemoveAt(requests, i)
    /\ Len(requests') < Len(requests)

\* C19: a kickoff change shows the new status at once; when its write fails
\* the card shows again the status it showed immediately before the call, and
\* when it succeeds the card shows the new status.
C19_KickoffRollback ==
    [][ /\ Called("kickoff") => kickoffStatus' = call'.text
        /\ \A i \in DOMAIN requests :
              (requests[i].op = "kickoff" /\ Settled(i))
                  => IF Succeeded(i)
                     THEN kickoffStatus' = requests[i].patch.val.kickoff_status
                     ELSE kickoffStatus' = requests[i].localBefore ]_vars

\* the same statement for a change called while the card shows the kickoff
\* status of the project record it holds, with no reload before the write settles
C19_RollbackToRecord ==
    [][ /\ Called("kickoff") => kickoffStatus' = call'.text
        /\ \A i \in DOMAIN requests :
              (requests[i].op = "kickoff" /\ Settled(i)
                 /\ requests[i].localBefore = requests[i].revertTo
                 /\ kickoffStatus = requests[i].patch.val.kickoff_status)
                  => IF Succeeded(i)
                     THEN kickoffStatus' = requests[i].patch.val.kickoff_status
                     ELSE kickoffStatus' = requests[i].localBefore ]_vars

----------------------------------------------------------------------------
(* Properties of the saving flag (Spec) *)

\* C20: at most one updateProject request of the card is in flight, and the
\* saving flag is set exactly while one is.
C20_OneOutstandingRequest ==
    /\ Len(requests) <= 1
    /\ isSaving <=> requests # <<>>

\* a corrective write and the write of a user operation are in flight together
C20_CorrectiveOverlap ==
    /\ mode = "card"
    /\ Len(requests) = 2
    /\ \E i, j \in DOMAIN requests :
          requests[i].op = "corrective" /\ requests[j].op \notin { "corrective", "saveNotes" }

\* in SpecLifecycle: a notes write was issued while another write of the card
\* was in flight, it has settled and cleared the saving flag, and the other
\* write is still outstanding
C20_NotesOverlap ==
    /\ mode = "card"
    /\ opsLeft = 0
    /\ ~isSaving
    /\ Len(requests) = 1
    /\ requests[1].op \in { "kickoff", "complete", "uncomplete" }
    /\ dbFields = projectFields
    /\ ~refetchPending

----------------------------------------------------------------------------
(* Properties of failed writes and of the checklist handlers (SpecCard, SpecLifecycle) *)

\* request i was rejected by the backend in this step
Rejected(i) == Settled(i) /\ call'.op = "rejected" /\ call'.index = i

\* the handlers that change the stage list or the test checklist
ListOps == { "toggleStage", "addStage", "deleteStage", "toggleTest", "addTest", "deleteTest" }

\* C21: when the write of toggleStage, addCustomStage, deleteStage,
\* toggleTest, addTest or deleteTest is rejected, the local stage list and the
\* local checklist stay as they are (for the checklist: the list that was
\* sent), the stored record is unchanged, no refresh is requested and an
\* alert is shown.
C21_FailedWriteKeepsLocalChange ==
    [][ \A i \in DOMAIN requests :
          (Rejected(i) /\ requests[i].op \in ListOps) =>
              /\ pentestStages' = pentestStages
              /\ tests' = tests
              /\ requests[i].op \in { "toggleTest", "addTest", "deleteTest" }
                    => tests' = requests[i].patch.val.tests_checklist
              /\ db' = db
              /\ dbFields' = dbFields
              /\ refetchPending' = refetchPending
              /\ alertMsg' # "" ]_vars

\* the write of an added stage was rejected: the view keeps the stage the
\* stored list does not have, the alert is up and no refresh is requested
C21_Witness ==
    /\ mode = "card"
    /\ call.op = "rejected"
    /\ call.text = "addStage"
    /\ Len(pentestStages) = Len(db.pentest_stages) + 1
    /\ alertMsg = "Failed to add stage"
    /\ ~refetchPending

\* the write of a deleted checklist item was rejected
C21_TestWitness ==
    /\ mode = "card"
    /\ call.op = "rejected"
    /\ call.text = "deleteTest"
    /\ Len(tests) < Len(dbFields.tests_checklist)
    /\ alertMsg # ""

\* the handlers of the test checklist
TestOps == { "toggleTest", "addTest", "deleteTest" }

\* C22: a toggleTest, addTest or deleteTest call leaves the stage list, the
\* displayed progress and the stored record alone and sends at most one
\* request, whose payload is the new checklist and nothing else; when that
\* write succeeds the stored stage list and progress are unchanged. addTest
\* with blank text changes nothing, addTest appends the trimmed text at the
\* tail, toggleTest keeps every text at its position and deleteTest removes
\* the indexed item and keeps the others in order.
C22_TestHandlersFrame ==
    [][ /\ call'.op \in TestOps /\ Called(call'.op) =>
              /\ UNCHANGED <<pentestStages, progress, db, dbFields>>
              /\ calculateWeightedProgress(pentestStages')
                    = calculateWeightedProgress(pentestStages)
              /\ \/ requests' = requests /\ tests' = tests
                 \/ /\ Len(requests') = Len(requests) + 1
                    /\ SubSeq(requests', 1, Len(requests)) = requests
                    /\ LET r == requests'[Len(requests')]
                       IN  /\ ~r.hasStages
                           /\ ~r.hasProgress
                           /\ r.patch.keys = { "tests_checklist" }
                           /\ r.patch.val.tests_checklist = tests'
        /\ Called("addTest") =>
              IF Trim(call'.text) = ""
              THEN tests' = tests /\ requests' = requests /\ isSaving' = isSaving
              ELSE /\ Len(tests') = Len(tests) + 1
                   /\ SubSeq(tests', 1, Len(tests)) = tests
                   /\ tests'[Len(tests')].test = Trim(call'.text)
                   /\ ~tests'[Len(tests')].done
        /\ Called("toggleTest") =>
              /\ Len(tests') = Len(tests)
              /\ \A j \in DOMAIN tests :
                    /\ tests'[j].test = tests[j].test
                    /\ j # call'.index => tests'[j] = tests[j]
              /\ tests'[call'.index].done = ~tests[call'.index].done
        /\ Called("deleteTest") =>
              /\ Len(tests') = Len(tests) - 1
              /\ \A j \in DOMAIN tests' :
                    tests'[j] = IF j < call'.index THEN tests[j] ELSE tests[j + 1]
        /\ \A i \in DOMAIN requests :
              (requests[i].op \in TestOps /\ Settled(i)) =>
                  /\ db' = db
                  /\ pentestStages' = pentestStages
                  /\ progress' = progress ]_vars

\* the second of two checklist items was deleted and the first one is left
C22_Witness ==
    /\ mode = "card"
    /\ call.op = "deleteTest"
    /\ call.index = 2
    /\ Len(tests) = 1
    /\ tests[1].test = "Recon"
    /\ LastPatch(requests).val.tests_checklist = tests

\* a blank addTest call was made
C22_BlankWitness ==
    /\ mode = "card"
    /\ call.op = "addTest"
    /\ Trim(call.text) = ""
    /\ requests = <<>>

----------------------------------------------------------------------------
(* Properties of the reconcile guard and the corrective write (SpecSwitch, Spec) *)

\* C23: a reconcile pass is skipped only when the fingerprint of its input
\* equals the one of the previous pass and the engagement id is the one of
\* the previous pass; after a pass for another engagement id the local view
\* is the reconciled stored list of that engagement, completion dates
\* included.
C23_GuardPerEngagement ==
    [][ ReconcilePass =>
          /\ ~PassRuns =>
                /\ currentStagesKey(project) = currentStagesKey(lastInput)
                /\ project.id = lastInput.id
          /\ project.id # lastInput.id =>
                pentestStages' = IF project.hasStages
                                 THEN updatedStagesOf(project.pentest_stages)
                                 ELSE initialStages ]_vars

\* the card was handed another engagement with the same stage names and done
\* flags, the pass is over and the view shows a completion date that is not
\* the stored one
C23_StaleViewWitness ==
    /\ mode = "card"
    /\ ~effectPending
    /\ project.id = OtherId
    /\ lastInput = project
    /\ \E i \in DOMAIN pentestStages :
          /\ i \in DOMAIN project.pentest_stages
          /\ pentestStages[i].stage = project.pentest_stages[i].stage
          /\ pentestStages[i].date # project.pentest_stages[i].date

\* the payloads of the corrective writes scheduled or in flight
CorrectivePayloads ==
    { timers[i].pentest_stages : i \in DOMAIN timers } \cup
    { requests[i].pentest_stages :
        i \in { j \in DOMAIN requests : requests[j].op = "corrective" } }

\* no corrective write is scheduled or in flight
Quiet == timers = <<>> /\ CorrectiveInFlight(requests) = 0

\* C24: a pass over the payload of a corrective write as stored input calls
\* for no corrective write, and while the parent reloads the record as often
\* as it likes the card reaches a state from which no corrective write is
\* scheduled or in flight any more.
C24_NoReconcileLoop ==
    /\ [](\A payload \in CorrectivePayloads : ~ShouldSaveOrder(payload))
    /\ <>[]Quiet

\* the payload of a stored corrective write came back as input (the stored
\* progress is the one a corrective write sends), the pass over it is over
\* and nothing is scheduled
C24_Witness ==
    /\ mode = "card"
    /\ ~effectPending
    /\ Quiet
    /\ lastInput = project
    /\ project.hasStages
    /\ project.pentest_stages = db.pentest_stages
    /\ project.pentest_stages = pentestStages
    /\ db.progress_percentage = correctiveProgress(db.pentest_stages)
    /\ db.progress_percentage # calculateWeightedProgress(db.pentest_stages)
    /\ lastProcessedStagesRef = currentStagesKey(project)

\* the operations a user invokes
HandlerOps ==
    { "toggleStage", "addStage", "deleteStage", "saveNotes", "addTest", "toggleTest",
      "deleteTest", "complete", "kickoff", "uncomplete", "projectForm" }

\* C25: an updateProject call is issued only by a handler the user invokes
\* (one call, for that handler) or by a timer that a pass over a new
\* fingerprint armed (one call per timer, which is then gone); a step in
\* which a request is rejected issues no request, arms no timer and queues no
\* reload or pass; a rejected corrective write shows no alert and changes
\* neither the view, the saving flag, the stored record nor the guard.
C25_NoRetry ==
    [][ /\ Len(requests') > Len(requests) =>
              /\ Len(requests') = Len(requests) + 1
              /\ SubSeq(requests', 1, Len(requests)) = requests
              /\ LET r == requests'[Len(requests')]
                 IN  \/ /\ call'.op \in HandlerOps
                        /\ r.op = call'.op
                        /\ Len(timers') = Len(timers)
                     \/ /\ r.op = "corrective"
                        /\ timers # <<>>
                        /\ timers' = Tail(timers)
                        /\ r.pentest_stages = Head(timers).pentest_stages
        /\ Len(timers') > Len(timers) => PassRuns
        /\ \A i \in DOMAIN requests :
              Rejected(i) =>
                  /\ timers' = timers
                  /\ effectPending' = effectPending
                  /\ refetchPending' = refetchPending
                  /\ db' = db
                  /\ requests[i].op = "corrective" =>
                        /\ alertMsg' = ""
                        /\ UNCHANGED <<pentestStages, isSaving, lastProcessedStagesRef>> ]_vars

\* a corrective write was rejected: the stored list is still out of template
\* order, nothing is armed or in flight and no alert is up
C25_Witness ==
    /\ mode = "card"
    /\ call.op = "rejected"
    /\ call.text = "corrective"
    /\ requests = <<>>
    /\ timers = <<>>
    /\ alertMsg = ""
    /\ db.hasStages
    /\ ShouldSaveOrder(db.pentest_stages)

\* the write of a user operation was rejected and nothing is in flight
C25_UserWitness ==
    /\ mode = "card"
    /\ call.op = "rejected"
    /\ call.text \in HandlerOps
    /\ requests = <<>>
    /\ alertMsg # ""
    /\ ~isSaving

\* the handlers that change the stage list
StageOps == { "toggleStage", "addStage", "deleteStage" }

\* C26: when a corrective write is stored after a stage mutation of the user
\* was stored (the view was changed by a handler since the last pass, the
\* stored list is that view and no write of a stage handler is in flight),
\* the stored stage list stays the mutated one.
C26_CorrectiveKeepsMutation ==
    [][ \A i \in DOMAIN requests :
          (/\ requests[i].op = "corrective"
           /\ Settled(i)
           /\ call'.op = "resolved"
           /\ dirty
           /\ db.hasStages
           /\ db.pentest_stages = pentestStages
           /\ \A j \in DOMAIN requests : requests[j].op \notin StageOps)
              => db'.pentest_stages = db.pentest_stages ]_vars

\* a corrective write was stored after the write of an added stage: nothing
\* is in flight, the view ends with the stage and the stored list has lost it
C26_LostStage ==
    /\ mode = "card"
    /\ call.op = "resolved"
    /\ call.text = "corrective"
    /\ requests = <<>>
    /\ timers = <<>>
    /\ dirty
    /\ Len(pentestStages) = Len(db.pentest_stages) + 1
    /\ ~pentestStages[Len(pentestStages)].isStatic
    /\ SubSeq(pentestStages, 1, Len(db.pentest_stages)) = db.pentest_stages

----------------------------------------------------------------------------
(* Properties of the stored progress, the displayed business days, the saving
   flag and the static flag *)

\* C27: when the last step stored a write and no request is outstanding, the
\* stored progress_percentage is the weighted progress of the stored stage
\* list.
C27_StoredProgressIsWeighted ==
    (requests = <<>> /\ call.op = "resolved")
        => db.progress_percentage = calculateWeightedProgress(db.pentest_stages)

\* the same statement for the writes of toggleStage, addCustomStage and
\* deleteStage alone
C27_AfterStageHandler ==
    (requests = <<>> /\ call.op = "resolved" /\ call.text \in StageOps)
        => db.progress_percentage = calculateWeightedProgress(db.pentest_stages)

\* C28: for a completed project whose stored business_days_worked is the
\* value handleCompleteProject computes from its start date, completion date
\* and leave days, the card displays that value, and the displayed value is
\* not negative.
C28_DisplayedBusinessDays ==
    (/\ ~IsNullDate(projectFields.completed_date)
     /\ projectFields.business_days_worked
           = completedBusinessDays(projectFields.start_date,
                                   projectFields.completed_date,
                                   projectFields.leave_days))
        => /\ businessDaysWorked(projectFields) = projectFields.business_days_worked
           /\ businessDaysWorked(projectFields) >= 0

\* the card renders a project completed with more leave days than business
\* days between start and completion, and displays a negative number
C28_NegativeDisplay ==
    /\ mode = "card"
    /\ isCompleted
    /\ ~IsNullDate(projectFields.completed_date)
    /\ projectFields.business_days_worked = 0
    /\ businessDaysWorked(projectFields) < 0

\* the handlers that set the saving flag of the card
FlagOps == HandlerOps \ { "projectForm" }

\* C29: when the request of a handler that sets the saving flag settles,
\* resolved or rejected, the flag is off after that step; the flag is on only
\* while such a request is outstanding; and, requests settling eventually,
\* whenever the flag is on it is off again later.
C29_SavingFlagCleared ==
    /\ [][ \A i \in DOMAIN requests :
              (Settled(i) /\ requests[i].op \in FlagOps) => ~isSaving' ]_vars
    /\ [](isSaving => \E i \in DOMAIN requests : requests[i].op \in FlagOps)
    /\ (isSaving ~> ~isSaving)

\* the write of a completion was rejected, the flag is off and the project
\* is still not completed
C29_Witness ==
    /\ mode = "card"
    /\ call.op = "rejected"
    /\ call.text = "complete"
    /\ ~isSaving
    /\ ~isCompleted
    /\ requests = <<>>

\* C30: every stage of the local view is flagged static exactly when its
\* name is a template name.
C30_StaticIffTemplateName ==
    \A i \in DOMAIN pentestStages :
        pentestStages[i].isStatic <=> IsTemplateName(pentestStages[i].stage)

\* a stage was added under a template name and the view shows it as a
\* custom stage, which the delete button does not refuse
C30_CustomWithTemplateName ==
    /\ mode = "card"
    /\ call.op = "addStage"
    /\ IsTemplateName(pentestStages[Len(pentestStages)].stage)
    /\ ~pentestStages[Len(pentestStages)].isStatic

====
